---------------------------- MODULE Spec2Model ----------------------------
(***************************************************************************)
(* A model of the GLM 4.7 OpenAI-compatible proxy:                         *)
(*   - GLMClient.send_message (glm_cli/api_client.py): request signing,    *)
(*     history fetch, completions POST and the demultiplexing of the       *)
(*     backend's server-sent-event stream into thinking / thinking_end /   *)
(*     content / done / error events;                                      *)
(*   - the proxy (glm_proxy/server.py): the cached default chat session,   *)
(*     tool-call synthesis and the assembly of the OpenAI-shaped response. *)
(*                                                                         *)
(* Text is modelled as a sequence of tokens.  In the demultiplexer a token *)
(* is either one piece of plain text or one whole marker.                  *)
(***************************************************************************)
EXTENDS Integers, Sequences, FiniteSets, TLC

VARIABLES
    \* ---- GLMClient.send_message, the stream loop ----
    dpc,          \* position of the generator: "idle" | "post" | "reading" | "closed" | "raised"
    in_thinking,  \* api_client.py:348, the demultiplexer's state
    events,       \* the events yielded so far, in order
    used,         \* size of the backend input consumed so far (lines, choices and tokens)
    faulted,      \* a requests.RequestException was raised while opening or reading
    \* ---- GLMClient.send_message, from the call to the completions POST ----
    spc,          \* position: "idle" | "start" | "signed" | "ready" | "posted" | "raised"
    args,         \* the arguments of the call
    signed,       \* signature, timestamp and request_id (api_client.py:256-272)
    resolved_parent_id,  \* api_client.py:277
    history_messages,    \* api_client.py:276
    netlog,       \* the network calls issued by the call, in order
    sigFailed,    \* the computation of the signature raised
    \* ---- the proxy process and its default chat session (server.py:47-56) ----
    proxy_chat_id,  \* the module-level cache _proxy_chat_id
    hpc,          \* position of the handler of each request
    chat_of,      \* the chat identifier each request works with
    ncreated,     \* number of chat sessions client.create_chat has created
    \* ---- chat_completions (server.py:753-930), one request ----
    ppc,          \* position of the handler: "idle" | "received" | "collecting" | "collected" | "streaming"
                  \* | "responded" | "raised" | "abandoned"
    request_body, \* the JSON body of the request
    backend_calls,  \* number of calls of client.send_message
    reply,        \* what that call yields
    pending,      \* the events _stream_glm_response has not read yet
    sent_role,    \* server.py:704
    full_text,    \* server.py:871, 911, 929
    out,          \* the objects of the response, in order
    out_kind,     \* "none" | "json" (JSONResponse) | "sse" (StreamingResponse)
    source,       \* the stage the response comes from
    fallback,     \* server.py:843-845
    caller_gone,  \* the caller has closed its connection
    environ,      \* os.environ of the proxy process: the two legacy switches
    system_messages,  \* the system messages the handler has put in front of the
                  \* conversation it passes to send_message, in order
    \* ---- the stream loop on a sequence of fragments and on the same sequence with
    \* ---- the <think> markers replaced by the <details> markers ----
    mpc,          \* "idle" | "reading"
    nfragments,   \* number of envelopes read so far
    given_thinking,     \* in_thinking of the run on the fragments as given
    given_events,       \* the events of that run
    replaced_thinking,  \* in_thinking of the run on the fragments with the markers replaced
    replaced_events,    \* the events of that run
    \* ---- the stream loop on one envelope ----
    fpc,          \* "idle" | "drawn" | "applied"
    envelope,     \* the format of the envelope: "choices" | "completion"
    fragment,     \* the text of the envelope, as tokens
    before,       \* in_thinking when the envelope is read
    after,        \* in_thinking once it has been handled
    yielded,      \* the events the envelope has yielded
    \* ---- GLMClient._history_to_messages (api_client.py:57-79), one call ----
    lpc,          \* "idle" | "called" | "walking" | "returned"
    messages_map, \* history["messages"]: the messages by id
    currentId,    \* history["currentId"]
    cursor,       \* api_client.py:65
    chain_ids,    \* api_client.py:64
    linear        \* the value returned

demuxVars == <<dpc, in_thinking, events, used, faulted>>
signVars == <<spc, args, signed, resolved_parent_id, history_messages, netlog, sigFailed>>

sessVars == <<proxy_chat_id, hpc, chat_of, ncreated>>

proxyVars == <<ppc, request_body, backend_calls, reply, pending, sent_role, full_text, out, out_kind, source,
               fallback, caller_gone, environ, system_messages>>

markerVars == <<mpc, nfragments, given_thinking, given_events, replaced_thinking, replaced_events>>

fragmentVars == <<fpc, envelope, fragment, before, after, yielded>>

historyVars == <<lpc, messages_map, currentId, cursor, chain_ids, linear>>

vars == <<demuxVars, signVars, sessVars, proxyVars, markerVars, fragmentVars, historyVars>>

\* What the actions of one part of the model leave alone.
DemuxOnly == UNCHANGED <<signVars, sessVars, proxyVars, markerVars, fragmentVars, historyVars>>
SignOnly == UNCHANGED <<demuxVars, sessVars, proxyVars, markerVars, fragmentVars, historyVars>>
SessOnly == UNCHANGED <<demuxVars, signVars, proxyVars, markerVars, fragmentVars, historyVars>>
ProxyOnly == UNCHANGED <<demuxVars, signVars, sessVars, markerVars, fragmentVars, historyVars>>
MarkerOnly == UNCHANGED <<demuxVars, signVars, sessVars, proxyVars, fragmentVars, historyVars>>
HistoryOnly == UNCHANGED <<demuxVars, signVars, sessVars, proxyVars, markerVars, fragmentVars>>
FragmentOnly == UNCHANGED <<demuxVars, signVars, sessVars, proxyVars, markerVars, historyVars>>

-----------------------------------------------------------------------------
(* Bounds of the model *)

\* Chat-completion requests handled by one proxy process.
MaxRequests == 3
\* Size of the backend input of one response: one per line, one per further
\* choice of a line, one per text or marker token.
MaxInput == 6
\* Envelopes of one stream whose markers are replaced, and tokens of one fragment.
MaxFragments == 2
MaxFragmentLen == 3
\* Tokens of the text of the one envelope the loop is followed on.
MaxTokens == 5

\* Identifiers appended to chain_ids by one call of _history_to_messages.
MaxChain == 5

-----------------------------------------------------------------------------
(* Sequences *)

Last(s) == s[Len(s)]

\* All sequences over S of length lo..hi.
SeqsOf(S, lo, hi) == UNION {[1..n -> S] : n \in lo..hi}

RECURSIVE SumLen(_)
SumLen(ss) == IF ss = <<>> THEN 0 ELSE Len(Head(ss)) + SumLen(Tail(ss))

\* s without the elements equal to x (str.replace(x, "") on tokens).
RECURSIVE RemoveAll(_, _)
RemoveAll(s, x) ==
    IF s = <<>> THEN <<>>
    ELSE IF Head(s) = x THEN RemoveAll(Tail(s), x)
    ELSE <<Head(s)>> \o RemoveAll(Tail(s), x)

\* Index of the first element of s that is in S, 0 if there is none.
RECURSIVE FirstIn(_, _, _)
FirstIn(s, S, i) ==
    IF i > Len(s) THEN 0
    ELSE IF s[i] \in S THEN i
    ELSE FirstIn(s, S, i + 1)

\* str.split(sep) on tokens: the pieces between the occurrences of sep.
RECURSIVE SplitOn(_, _, _)
SplitOn(s, sep, cur) ==
    IF s = <<>> THEN <<cur>>
    ELSE IF Head(s) = sep THEN <<cur>> \o SplitOn(Tail(s), sep, <<>>)
    ELSE SplitOn(Tail(s), sep, Append(cur, Head(s)))

Contains(s, x) == \E i \in 1..Len(s) : s[i] = x

-----------------------------------------------------------------------------
(* Python strings.  A text of the proxy is a TLA+ string, read a character at *)
(* a time.                                                                 *)

\* A value under a name: With(e, LAMBDA x : f(x)) is f(e).
With(v, F(_)) == F(v)

Ch(s, i) == IF 1 <= i /\ i <= Len(s) THEN SubSeq(s, i, i) ELSE ""
From(s, i) == SubSeq(s, i, Len(s))
CharsOf(s) == {SubSeq(s, k, k) : k \in 1..Len(s)}

UpperAlpha == "ABCDEFGHIJKLMNOPQRSTUVWXYZ"
LowerAlpha == "abcdefghijklmnopqrstuvwxyz"
Digits == CharsOf("0123456789")
\* The regular-expression class [A-Za-z0-9], and \w.
AlnumChars == CharsOf("ABCDEFGHIJKLMNOPQRSTUVWXYZabcdefghijklmnopqrstuvwxyz0123456789")
WordChars == AlnumChars \cup {"_"}
Whitespace == {" ", "\n", "\t", "\r"}

\* The least (greatest) element of a set of indices, 0 if it is empty.
MinOrZero(S) == IF S = {} THEN 0 ELSE CHOOSE k \in S : \A m \in S : k <= m
MaxOrZero(S) == IF S = {} THEN 0 ELSE CHOOSE k \in S : \A m \in S : k >= m

\* The first (last) index of lo..hi with the property, 0 if there is none.
FirstIdx(lo, hi, P(_)) == MinOrZero({k \in lo..hi : P(k)})
LastIdx(lo, hi, P(_)) == MaxOrZero({k \in lo..hi : P(k)})

LowerCh(c) ==
    With(MinOrZero({k \in 1..26 : SubSeq(UpperAlpha, k, k) = c}),
         LAMBDA i : IF i = 0 THEN c ELSE SubSeq(LowerAlpha, i, i))

\* str.lower()
RECURSIVE Lower(_)
Lower(s) ==
    IF Len(s) <= 1 THEN LowerCh(s)
    ELSE Lower(SubSeq(s, 1, Len(s) \div 2)) \o Lower(From(s, Len(s) \div 2 + 1))

StartsWithAt(s, i, sub) ==
    1 <= i /\ i + Len(sub) - 1 <= Len(s) /\ SubSeq(s, i, i + Len(sub) - 1) = sub
StartsWith(s, sub) == StartsWithAt(s, 1, sub)
EndsWith(s, sub) == Len(sub) <= Len(s) /\ SubSeq(s, Len(s) - Len(sub) + 1, Len(s)) = sub

\* str.find(sub, from): the index (from 1) of the first occurrence, 0 if none.
Find(s, sub, i) == FirstIdx(i, Len(s) - Len(sub) + 1, LAMBDA k : StartsWithAt(s, k, sub))

\* str.rfind(sub)
RFind(s, sub) == LastIdx(1, Len(s) - Len(sub) + 1, LAMBDA k : StartsWithAt(s, k, sub))

\* sub in s
In(sub, s) == \E k \in 1..(Len(s) - Len(sub) + 1) : SubSeq(s, k, k + Len(sub) - 1) = sub

\* str.replace(old, new), old not empty
RECURSIVE Replace(_, _, _)
Replace(s, old, new) ==
    With(Find(s, old, 1),
         LAMBDA i : IF i = 0 THEN s
                    ELSE SubSeq(s, 1, i - 1) \o new \o Replace(From(s, i + Len(old)), old, new))

\* any(k in s for k in keywords)
AnyIn(keywords, s) == \E n \in 1..Len(keywords) : In(keywords[n], s)

\* str.lstrip(chars), str.rstrip(chars), str.strip(chars); chars is a set of
\* characters.
LStripChars(s, chars) ==
    With(FirstIdx(1, Len(s), LAMBDA k : SubSeq(s, k, k) \notin chars),
         LAMBDA first : IF first = 0 THEN "" ELSE From(s, first))
RStripChars(s, chars) ==
    SubSeq(s, 1, LastIdx(1, Len(s), LAMBDA k : SubSeq(s, k, k) \notin chars))
StripChars(s, chars) == RStripChars(LStripChars(s, chars), chars)
Strip(s) == StripChars(s, Whitespace)
RStrip(s) == RStripChars(s, Whitespace)

\* "".join(parts)
RECURSIVE Join(_)
Join(parts) == IF parts = <<>> THEN "" ELSE Head(parts) \o Join(Tail(parts))

-----------------------------------------------------------------------------
(* JSON values and json.loads *)

\* A JSON value: t is its type, s the text of a string, number or literal,
\* items the elements of an array or the [k, v] members of an object (in
\* insertion order, each key once).
JStr(x) == [t |-> "str", s |-> x, items |-> <<>>]
JNum(x) == [t |-> "num", s |-> x, items |-> <<>>]
JLit(x) == [t |-> "lit", s |-> x, items |-> <<>>]
JArr(xs) == [t |-> "arr", s |-> "", items |-> xs]
JObj(kvs) == [t |-> "obj", s |-> "", items |-> kvs]
JNull == JLit("null")
KV(k, v) == [k |-> k, v |-> v]

IsJStr(x) == x.t = "str"
IsJObj(x) == x.t = "obj"
IsJArr(x) == x.t = "arr"
IsJNull(x) == x.t = "lit" /\ x.s = "null"

\* dict: `k in d`, d.get(k) (JNull when absent), d.get(k, default), d[k] = v.
MemberIndex(kvs, k) == MinOrZero({i \in 1..Len(kvs) : kvs[i].k = k})
Has(kvs, k) == \E i \in 1..Len(kvs) : kvs[i].k = k
GetOr(kvs, k, default) ==
    With(MemberIndex(kvs, k), LAMBDA i : IF i = 0 THEN default ELSE kvs[i].v)
Get(kvs, k) == GetOr(kvs, k, JNull)
Put(kvs, k, v) ==
    With(MemberIndex(kvs, k),
         LAMBDA i : IF i = 0 THEN Append(kvs, KV(k, v)) ELSE [kvs EXCEPT ![i] = KV(k, v)])

\* Python truth of a JSON value.
JTruthy(x) ==
    CASE x.t = "str" -> x.s # ""
      [] x.t = "num" -> CharsOf(x.s) \ {"-", "0"} # {}
      [] x.t = "lit" -> x.s = "true"
      [] OTHER -> x.items # <<>>

\* The result of a parse: the value and the index after it, or a failure.
Parsed(v, i) == [ok |-> TRUE, v |-> v, i |-> i]
ParseError == [ok |-> FALSE, v |-> JNull, i |-> 0]

\* The first index from i on that holds no character of chars (Len(s) + 1 at the end).
SkipChars(s, i, chars) ==
    IF i > Len(s) THEN i ELSE FirstIdx(i, Len(s) + 1, LAMBDA k : Ch(s, k) \notin chars)
SkipWs(s, i) == SkipChars(s, i, Whitespace)

\* The characters a backslash may escape in a JSON string, and what they stand for.
EscapeOf(c) ==
    CASE c = "n" -> "\n"
      [] c = "t" -> "\t"
      [] c = "r" -> "\r"
      [] c \in {"\"", "\\", "/"} -> c
      [] OTHER -> ""

\* A JSON string from the character after its opening quote, read from the
\* first quote, backslash or control character j at or after i; control
\* characters are refused as json.loads (strict) refuses them.
RECURSIVE ParseStringAt(_, _, _, _)
ParseStringAt(s, i, j, acc) ==
    IF j = 0 THEN ParseError
    ELSE IF Ch(s, j) = "\"" THEN Parsed(JStr(acc \o SubSeq(s, i, j - 1)), j + 1)
    ELSE IF Ch(s, j) = "\\" /\ EscapeOf(Ch(s, j + 1)) # ""
         THEN ParseStringAt(s, j + 2,
                  FirstIdx(j + 2, Len(s), LAMBDA k : SubSeq(s, k, k) \in {"\"", "\\", "\n", "\t", "\r"}),
                  acc \o SubSeq(s, i, j - 1) \o EscapeOf(Ch(s, j + 1)))
    ELSE ParseError
ParseStringFrom(s, i) ==
    ParseStringAt(s, i,
        FirstIdx(i, Len(s), LAMBDA k : SubSeq(s, k, k) \in {"\"", "\\", "\n", "\t", "\r"}), "")

\* An integer: -?(0|[1-9][0-9]*), its digits from j to before e.
NumberUpTo(s, i, j, e) ==
    IF e = j THEN ParseError ELSE Parsed(JNum(SubSeq(s, i, e - 1)), e)
DigitsFrom(s, i, j) ==
    NumberUpTo(s, i, j, IF Ch(s, j) = "0" THEN j + 1 ELSE SkipChars(s, j, Digits))
ParseNumber(s, i) == DigitsFrom(s, i, IF Ch(s, i) = "-" THEN i + 1 ELSE i)

RECURSIVE ParseValue(_, _)
RECURSIVE ParseElements(_, _, _)
RECURSIVE ParseMembers(_, _, _)

\* After an element r of an array, at the index j of what follows it.
AfterElement(s, r, j, acc) ==
    IF ~r.ok THEN ParseError
    ELSE IF Ch(s, j) = "," THEN ParseElements(s, j + 1, Append(acc, r.v))
    ELSE IF Ch(s, j) = "]" THEN Parsed(JArr(Append(acc, r.v)), j + 1)
    ELSE ParseError

\* The elements of an array after "[" or after a ",".
ParseElements(s, i, acc) ==
    With(ParseValue(s, SkipWs(s, i)),
         LAMBDA r : AfterElement(s, r, IF r.ok THEN SkipWs(s, r.i) ELSE 0, acc))

\* After the value r of the member k of an object, at the index e of what
\* follows it.
AfterMember(s, k, r, e, acc) ==
    IF ~r.ok THEN ParseError
    ELSE IF Ch(s, e) = "," THEN ParseMembers(s, e + 1, Put(acc, k, r.v))
    ELSE IF Ch(s, e) = "}" THEN Parsed(JObj(Put(acc, k, r.v)), e + 1)
    ELSE ParseError

\* After the key k of a member, at the index c of what follows it.
AfterKey(s, k, c, acc) ==
    IF ~k.ok \/ Ch(s, c) # ":" THEN ParseError
    ELSE With(ParseValue(s, SkipWs(s, c + 1)),
              LAMBDA r : AfterMember(s, k.v.s, r, IF r.ok THEN SkipWs(s, r.i) ELSE 0, acc))

\* The members of an object after "{" or after a ",", the first at j.
MemberAt(s, j, acc) ==
    IF Ch(s, j) # "\"" THEN ParseError
    ELSE With(ParseStringFrom(s, j + 1),
              LAMBDA k : AfterKey(s, k, IF k.ok THEN SkipWs(s, k.i) ELSE 0, acc))
ParseMembers(s, i, acc) == MemberAt(s, SkipWs(s, i), acc)

\* A value that begins with the character c at i; j is the index of what
\* follows c.
ValueAt(s, i, c, j) ==
    CASE c = "\"" -> ParseStringFrom(s, i + 1)
      [] c = "{" -> IF Ch(s, j) = "}" THEN Parsed(JObj(<<>>), j + 1)
                    ELSE MemberAt(s, j, <<>>)
      [] c = "[" -> IF Ch(s, j) = "]" THEN Parsed(JArr(<<>>), j + 1)
                    ELSE ParseElements(s, j, <<>>)
      [] c = "n" /\ StartsWithAt(s, i, "null") -> Parsed(JNull, i + 4)
      [] c = "t" /\ StartsWithAt(s, i, "true") -> Parsed(JLit("true"), i + 4)
      [] c = "f" /\ StartsWithAt(s, i, "false") -> Parsed(JLit("false"), i + 5)
      [] c = "-" \/ c \in Digits -> ParseNumber(s, i)
      [] OTHER -> ParseError
ParseValue(s, i) == ValueAt(s, i, Ch(s, i), SkipWs(s, i + 1))

\* json.loads(s): one value, surrounded by whitespace only; a failure stands
\* for the exception.
json_loads(s) ==
    With(ParseValue(s, SkipWs(s, 1)),
         LAMBDA r : IF r.ok /\ SkipWs(s, r.i) = Len(s) + 1 THEN r ELSE ParseError)

-----------------------------------------------------------------------------
(* The demultiplexer of GLMClient.send_message *)

\* Plain text.
TextTok == {"a"}
\* re.search(r"<think(?: [^>]*)?>", content): the opening markers of the first vocabulary.
ThinkOpenTok == {"<think>", "<think x>"}
ThinkCloseTok == "</think>"
\* re.split(r"(<details[^>]*>|</details>)", content): the second vocabulary.
DetailsOpenTok == {"<details>"}
DetailsCloseTok == "</details>"

Tok == TextTok \cup ThinkOpenTok \cup {ThinkCloseTok} \cup DetailsOpenTok \cup {DetailsCloseTok}

\* The `phase` field of an envelope of the second format; "none" is an absent field.
Phases == {"none", "thinking", "answer", "other", "done"}

Ev(t, d) == [type |-> t, data |-> d]
ThinkingEnd == Ev("thinking_end", <<>>)
Done == Ev("done", <<>>)
ErrorEv == Ev("error", <<>>)

\* The result of demultiplexing: the new state and the events to yield.
Res(it, evs) == [it |-> it, evs |-> evs]

\* A loop body that does not look for the closing marker.
DemuxChoiceUnsplit(it, c) ==
    IF c = <<>> THEN Res(it, <<>>)
    ELSE
      LET m == FirstIn(c, ThinkOpenTok, 1)
          it1 == IF m # 0 THEN TRUE ELSE it
          c1 == IF m # 0 THEN RemoveAll(c, c[m]) ELSE c
      IN Res(it1, <<Ev(IF it1 THEN "thinking" ELSE "content", c1)>>)

\* api_client.py:366-389, one choice of the `choices[].delta.content` format.
DemuxChoice(it, c) ==
    IF c = <<>> THEN Res(it, <<>>)
    ELSE
      LET m == FirstIn(c, ThinkOpenTok, 1)
          it1 == IF m # 0 THEN TRUE ELSE it
          c1 == IF m # 0 THEN RemoveAll(c, c[m]) ELSE c
      IN IF Contains(c1, ThinkCloseTok)
         THEN LET parts == SplitOn(c1, ThinkCloseTok, <<>>)
              IN Res(FALSE,
                     (IF parts[1] # <<>> THEN <<Ev("thinking", parts[1])>> ELSE <<>>)
                     \o <<ThinkingEnd>>
                     \o (IF Len(parts) > 1 /\ parts[2] # <<>>
                         THEN <<Ev("content", parts[2])>> ELSE <<>>))
         ELSE Res(it1, <<Ev(IF it1 THEN "thinking" ELSE "content", c1)>>)

\* api_client.py:364-390, the loop over the choices of one envelope.
RECURSIVE DemuxChoices(_, _)
DemuxChoices(it, cs) ==
    IF cs = <<>> THEN Res(it, <<>>)
    ELSE LET r == DemuxChoice(it, Head(cs))
             rest == DemuxChoices(r.it, Tail(cs))
         IN Res(rest.it, r.evs \o rest.evs)

\* api_client.py:407-425: the pieces of re.split around the <details> tags, each
\* non-empty piece of text yielded under the state active at its position.
RECURSIVE DemuxDetails(_, _, _)
DemuxDetails(it, c, run) ==
    LET flush == IF run # <<>> THEN <<Ev(IF it THEN "thinking" ELSE "content", run)>> ELSE <<>>
    IN IF c = <<>> THEN Res(it, flush)
       ELSE IF Head(c) \in DetailsOpenTok
            THEN LET rest == DemuxDetails(TRUE, Tail(c), <<>>)
                 IN Res(rest.it, flush \o rest.evs)
       ELSE IF Head(c) = DetailsCloseTok
            THEN LET rest == DemuxDetails(FALSE, Tail(c), <<>>)
                 IN Res(rest.it, flush \o (IF it THEN <<ThinkingEnd>> ELSE <<>>) \o rest.evs)
       ELSE DemuxDetails(it, Tail(c), Append(run, Head(c)))

\* api_client.py:393-426, one envelope {type: "chat:completion", data: {...}}.
DemuxCompletion(it, phase, delta_content, content) ==
    LET c == IF delta_content # <<>> THEN delta_content ELSE content
        closing == phase \in {"answer", "other", "done"} /\ it
        it1 == IF phase = "thinking" THEN TRUE
               ELSE IF closing THEN FALSE ELSE it
        pre == IF closing THEN <<ThinkingEnd>> ELSE <<>>
    IN IF phase = "done" THEN Res(it1, pre \o <<Done>>)
       ELSE LET r == DemuxDetails(it1, c, <<>>)
            IN Res(r.it, pre \o r.evs)

\* The size of one envelope of the first format: one per choice (one for an
\* envelope without choices) and one per token.
InputSize(cs) == (IF cs = <<>> THEN 1 ELSE Len(cs)) + SumLen(cs)

\* The lists of choices of an envelope of size at most b.
RECURSIVE ChoiceLists(_)
ChoiceLists(b) ==
    {<<>>} \cup
    UNION {{<<c>> \o rest : rest \in (IF b - 1 - Len(c) >= 1
                                        THEN ChoiceLists(b - 1 - Len(c)) ELSE {<<>>})} :
           c \in SeqsOf(Tok, 0, b - 1)}

-----------------------------------------------------------------------------
(* GLMClient.send_message as a generator: one action per backend line *)

CanRead == dpc = "reading" /\ used < MaxInput

\* api_client.py:339-345, the POST succeeds and the stream is opened.
PostOk ==
    /\ dpc = "post"
    /\ dpc' = "reading"
    /\ UNCHANGED <<in_thinking, events, used, faulted>>
    /\ DemuxOnly

\* A handler that ends the stream without reporting the fault.
OnRequestExceptionSilent(evs) == evs

\* api_client.py:430-431, the handler of requests.RequestException.
OnRequestException(evs) == Append(evs, ErrorEv)

\* api_client.py:339-345 and 430-431: session.post or raise_for_status raises.
PostFault ==
    /\ dpc = "post"
    /\ dpc' = "closed"
    /\ faulted' = TRUE
    /\ events' = OnRequestException(events)
    /\ UNCHANGED <<in_thinking, used>>
    /\ DemuxOnly

\* api_client.py:350-355: an empty line, or a line that does not start with "data: ".
ReadIgnoredLine ==
    /\ CanRead
    /\ used' = used + 1
    /\ UNCHANGED <<dpc, in_thinking, events, faulted>>
    /\ DemuxOnly

\* api_client.py:357-359: the literal sentinel.
ReadSentinel ==
    /\ CanRead
    /\ used' = used + 1
    /\ events' = Append(events, Done)
    /\ dpc' = "closed"
    /\ UNCHANGED <<in_thinking, faulted>>
    /\ DemuxOnly

\* api_client.py:361-362 and 427-428: json.loads raises JSONDecodeError.
ReadMalformed ==
    /\ CanRead
    /\ used' = used + 1
    /\ UNCHANGED <<dpc, in_thinking, events, faulted>>
    /\ DemuxOnly

\* api_client.py:364 and 393: a JSON object of neither format.
ReadOtherObject ==
    /\ CanRead
    /\ used' = used + 1
    /\ UNCHANGED <<dpc, in_thinking, events, faulted>>
    /\ DemuxOnly

\* api_client.py:364: `"choices" in data` (or data.get) on a JSON number, null or
\* array raises TypeError / AttributeError, which no handler of the generator catches.
ReadNonObject ==
    /\ CanRead
    /\ used' = used + 1
    /\ dpc' = "raised"
    /\ UNCHANGED <<in_thinking, events, faulted>>
    /\ DemuxOnly

\* api_client.py:364-390.
ReadChoices ==
    /\ CanRead
    /\ \E cs \in ChoiceLists(MaxInput - used) :
          /\ LET r == DemuxChoices(in_thinking, cs)
             IN /\ in_thinking' = r.it
                /\ events' = events \o r.evs
          /\ used' = used + InputSize(cs)
    /\ UNCHANGED <<dpc, faulted>>
    /\ DemuxOnly

\* api_client.py:393-426.
ReadCompletion ==
    /\ CanRead
    /\ \E phase \in Phases :
       \E c \in SeqsOf(Tok, 0, MaxInput - used - 1) :
       \E viaDelta \in BOOLEAN :
          /\ LET r == DemuxCompletion(in_thinking, phase,
                                      IF viaDelta THEN c ELSE <<>>,
                                      IF viaDelta THEN <<>> ELSE c)
             IN /\ in_thinking' = r.it
                /\ events' = events \o r.evs
          /\ used' = used + 1 + Len(c)
    /\ UNCHANGED <<dpc, faulted>>
    /\ DemuxOnly

\* api_client.py:350: iter_lines is exhausted, the generator returns.
StreamEnd ==
    /\ dpc = "reading"
    /\ dpc' = "closed"
    /\ UNCHANGED <<in_thinking, events, used, faulted>>
    /\ DemuxOnly

\* api_client.py:350 and 430-431: iter_lines raises a requests.RequestException.
ReadFault ==
    /\ dpc = "reading"
    /\ dpc' = "closed"
    /\ faulted' = TRUE
    /\ events' = OnRequestException(events)
    /\ UNCHANGED <<in_thinking, used>>
    /\ DemuxOnly

DemuxInit ==
    /\ dpc = "post"
    /\ in_thinking = FALSE
    /\ events = <<>>
    /\ used = 0
    /\ faulted = FALSE

DemuxNext ==
    \/ PostOk
    \/ PostFault
    \/ ReadIgnoredLine
    \/ ReadSentinel
    \/ ReadMalformed
    \/ ReadOtherObject
    \/ ReadNonObject
    \/ ReadChoices
    \/ ReadCompletion
    \/ StreamEnd
    \/ ReadFault


-----------------------------------------------------------------------------
(* The stream loop on two streams that differ in the marker vocabulary *)

\* A fragment of text and markers of the first vocabulary.
ThinkTok == TextTok \cup ThinkOpenTok \cup {ThinkCloseTok}

\* The fragment with each marker of the first vocabulary replaced by the marker of
\* the second one.
ReplacedTok(t) ==
    IF t \in ThinkOpenTok THEN "<details>"
    ELSE IF t = ThinkCloseTok THEN DetailsCloseTok
    ELSE t
Replaced(c) == [n \in 1..Len(c) |-> ReplacedTok(c[n])]

MarkerInit ==
    /\ mpc = "reading"
    /\ nfragments = 0
    /\ given_thinking = FALSE
    /\ given_events = <<>>
    /\ replaced_thinking = FALSE
    /\ replaced_events = <<>>

MarkerIdle ==
    /\ mpc = "idle"
    /\ nfragments = 0
    /\ given_thinking = FALSE
    /\ given_events = <<>>
    /\ replaced_thinking = FALSE
    /\ replaced_events = <<>>

\* api_client.py:364-390: both runs read an envelope of the first format, with one choice.
ReadChoicesBoth ==
    /\ mpc = "reading"
    /\ nfragments < MaxFragments
    /\ \E c \in SeqsOf(ThinkTok, 0, MaxFragmentLen) :
          /\ \E r \in {DemuxChoices(given_thinking, <<c>>)} :
                /\ given_thinking' = r.it
                /\ given_events' = given_events \o r.evs
          /\ \E r \in {DemuxChoices(replaced_thinking, <<Replaced(c)>>)} :
                /\ replaced_thinking' = r.it
                /\ replaced_events' = replaced_events \o r.evs
    /\ nfragments' = nfragments + 1
    /\ UNCHANGED mpc
    /\ MarkerOnly

\* api_client.py:393-426: both runs read an envelope of the second format.
ReadCompletionBoth ==
    /\ mpc = "reading"
    /\ nfragments < MaxFragments
    /\ \E phase \in Phases \ {"done"} :
       \E c \in SeqsOf(ThinkTok, 0, MaxFragmentLen) :
          /\ \E r \in {DemuxCompletion(given_thinking, phase, c, <<>>)} :
                /\ given_thinking' = r.it
                /\ given_events' = given_events \o r.evs
          /\ \E r \in {DemuxCompletion(replaced_thinking, phase, Replaced(c), <<>>)} :
                /\ replaced_thinking' = r.it
                /\ replaced_events' = replaced_events \o r.evs
    /\ nfragments' = nfragments + 1
    /\ UNCHANGED mpc
    /\ MarkerOnly

MarkerNext ==
    \/ ReadChoicesBoth
    \/ ReadCompletionBoth

-----------------------------------------------------------------------------
(* GLMClient._history_to_messages *)

\* Python's None.
None == "None"

\* The identifiers of the messages of a history, and an identifier no message has.
MsgIds == {"m1", "m2", "m3"}
MissingId == "m9"

\* A message of the history map: its parentId (None when it has none), its role
\* (None when it has none) and its content (None for a JSON null).
HistoryMessages ==
    [parentId : MsgIds \cup {None, MissingId},
     role : {"user", "assistant", None},
     content : {"text", None}]

\* The history maps: some of the identifiers, each with a message.
HistoryMaps == UNION {[ids -> HistoryMessages] : ids \in SUBSET MsgIds}

\* Python truth of an identifier or a role: None is falsy.
TruthyKey(k) == k # None

\* api_client.py:70-76: the messages of the chain that have a role and a content,
\* in the order of the chain.
RECURSIVE KeptMessages(_, _)
KeptMessages(ordered, map) ==
    IF ordered = <<>> THEN <<>>
    ELSE (IF TruthyKey(map[Head(ordered)].role) /\ map[Head(ordered)].content # None
          THEN <<[id |-> Head(ordered), role |-> map[Head(ordered)].role,
                  content |-> map[Head(ordered)].content]>>
          ELSE <<>>)
         \o KeptMessages(Tail(ordered), map)

\* api_client.py:69: list(reversed(chain_ids)).
Reversed(ids) == [n \in 1..Len(ids) |-> ids[Len(ids) + 1 - n]]

HistoryInit ==
    /\ lpc = "called"
    /\ messages_map \in HistoryMaps
    /\ currentId \in MsgIds \cup {None, MissingId}
    /\ cursor = None
    /\ chain_ids = <<>>
    /\ linear = None

HistoryIdle ==
    /\ lpc = "idle"
    /\ messages_map = <<>>
    /\ currentId = None
    /\ cursor = None
    /\ chain_ids = <<>>
    /\ linear = None

\* api_client.py:61-62: no currentId, or one the map does not hold.
ReturnEmpty ==
    /\ lpc = "called"
    /\ ~TruthyKey(currentId) \/ currentId \notin DOMAIN messages_map
    /\ linear' = [messages |-> <<>>, current_id |-> None]
    /\ lpc' = "returned"
    /\ UNCHANGED <<messages_map, currentId, cursor, chain_ids>>
    /\ HistoryOnly

\* api_client.py:64-65.
WalkBegin ==
    /\ lpc = "called"
    /\ TruthyKey(currentId) /\ currentId \in DOMAIN messages_map
    /\ chain_ids' = <<>>
    /\ cursor' = currentId
    /\ lpc' = "walking"
    /\ UNCHANGED <<messages_map, currentId, linear>>
    /\ HistoryOnly

\* api_client.py:66-68: one turn of the while loop.
WalkStep ==
    /\ lpc = "walking"
    /\ TruthyKey(cursor) /\ cursor \in DOMAIN messages_map
    /\ Len(chain_ids) < MaxChain
    /\ chain_ids' = Append(chain_ids, cursor)
    /\ cursor' = messages_map[cursor].parentId
    /\ UNCHANGED <<lpc, messages_map, currentId, linear>>
    /\ HistoryOnly

\* api_client.py:66, 69-78: the loop ends, the chain is reversed and returned.
WalkEnd ==
    /\ lpc = "walking"
    /\ ~(TruthyKey(cursor) /\ cursor \in DOMAIN messages_map)
    /\ linear' = [messages |-> KeptMessages(Reversed(chain_ids), messages_map),
                  current_id |-> currentId]
    /\ lpc' = "returned"
    /\ UNCHANGED <<messages_map, currentId, cursor, chain_ids>>
    /\ HistoryOnly

HistoryNext ==
    \/ ReturnEmpty
    \/ WalkBegin
    \/ WalkStep
    \/ WalkEnd

-----------------------------------------------------------------------------
(* The stream loop on one envelope *)

\* The envelope to read: its format, its text and the state it is read in.
FragmentInit ==
    /\ fpc = "drawn"
    /\ envelope \in {"choices", "completion"}
    /\ fragment \in SeqsOf(Tok, 0, MaxTokens)
    /\ before \in BOOLEAN
    /\ after = before
    /\ yielded = <<>>

FragmentIdle ==
    /\ fpc = "idle"
    /\ envelope = "choices"
    /\ fragment = <<>>
    /\ before = FALSE
    /\ after = FALSE
    /\ yielded = <<>>

\* api_client.py:364-390: an envelope {"choices": [{"delta": {"content": ...}}]}.
ApplyChoices ==
    /\ fpc = "drawn"
    /\ envelope = "choices"
    /\ \E r \in {DemuxChoices(before, <<fragment>>)} :
          /\ after' = r.it
          /\ yielded' = r.evs
    /\ fpc' = "applied"
    /\ UNCHANGED <<envelope, fragment, before>>
    /\ FragmentOnly

\* api_client.py:393-426: an envelope {"type": "chat:completion", "data":
\* {"delta_content": ...}} without phase.
ApplyCompletion ==
    /\ fpc = "drawn"
    /\ envelope = "completion"
    /\ \E r \in {DemuxCompletion(before, "none", fragment, <<>>)} :
          /\ after' = r.it
          /\ yielded' = r.evs
    /\ fpc' = "applied"
    /\ UNCHANGED <<envelope, fragment, before>>
    /\ FragmentOnly

FragmentNext ==
    \/ ApplyChoices
    \/ ApplyCompletion

-----------------------------------------------------------------------------
(* Request signing, glm_cli/signature_helper.py *)

\* A message content that is not a string (a list of content parts, null): its
\* .encode("utf-8") raises.
NonString == "<not a str>"
IsStr(x) == x # NonString

\* The 5-minute window of generate_signature, in milliseconds.
SignatureWindowMs == 300000

\* signature_helper.py:22
SIGNATURE_KEY == "key-@@@@)))()((9))-xxxx&&&%%%%%"

\* str(n) of an integer: a value that is not the integer and determines it.
Str(n) == [str |-> n]

\* signature_helper.py:25-31: HMAC-SHA256 as a collision-free function of its
\* key and message.  A signature is a tuple; <<>> is the empty (or absent) one.
hmac_sha256_hex(key, message) == <<"hmac", key, message>>

\* signature_helper.py:34-36: base64 of the UTF-8 bytes of the prompt.
prompt_b64(prompt) == [b64 |-> prompt]

\* signature_helper.py:39-55: the entries sorted by key name
\* ("requestId" < "timestamp" < "user_id"), flattened and joined by ",".
build_sorted_payload(timestamp, request_id, user_id) ==
    <<"requestId", request_id, "timestamp", Str(timestamp), "user_id", user_id>>

\* A window that is the timestamp itself.
time_window_exact(timestamp) == timestamp

\* signature_helper.py:74: int(timestamp) // 300000
time_window(timestamp) == timestamp \div SignatureWindowMs

\* signature_helper.py:75
subkey_hex(timestamp) == hmac_sha256_hex(SIGNATURE_KEY, Str(time_window(timestamp)))

\* signature_helper.py:76
data_to_sign(sorted_payload, prompt, timestamp) ==
    <<sorted_payload, "|", prompt_b64(prompt), "|", Str(timestamp)>>

\* signature_helper.py:58-77
generate_signature(sorted_payload, prompt, timestamp) ==
    hmac_sha256_hex(subkey_hex(timestamp), data_to_sign(sorted_payload, prompt, timestamp))

\* signature_helper.py:34-36 and 76: the computation raises when the prompt
\* cannot be encoded.
SigningRaises(prompt) == ~IsStr(prompt)

\* signature_helper.py:80-101, with the clock and the uuid it draws.
generate_request_params(prompt, user_id, ts, rid) ==
    [success |-> TRUE,
     timestamp |-> ts,
     request_id |-> rid,
     signature |-> generate_signature(build_sorted_payload(ts, rid, user_id), prompt, ts)]

\* signature_helper.py:104-109
get_signature_sync(prompt, user_id, ts, rid) ==
    IF SigningRaises(prompt) THEN [success |-> FALSE]
    ELSE generate_request_params(prompt, user_id, ts, rid)

-----------------------------------------------------------------------------
(* GLMClient.send_message, from the call to the completions POST *)

\* Values of int(time.time() * 1000), on both sides of a window boundary.
Clock == {299999, 300000}
\* Values of str(uuid.uuid4()).
Uuids == {"r1", "r2"}
Roles == {"user", "assistant"}
Contents == {"hello", "", NonString}
\* Longest message list passed to send_message.
MaxMessages == 2

Msg(r, c) == [role |-> r, content |-> c]
MessageLists == UNION {[1..n -> {Msg(r, c) : r \in Roles, c \in Contents}] : n \in 0..MaxMessages}

\* The arguments of send_message the model varies (api_client.py:225-239).
ArgSets ==
    [messages : MessageLists,
     user_id : {"", "u1"},
     manual_signature : {<<>>, <<"msig">>},
     manual_timestamp : {0, 600000},
     manual_request_id : {None, "mrid"},
     use_browser_signature : BOOLEAN,
     include_history : BOOLEAN,
     parent_message_id : {None, "p0"}]

\* api_client.py:250
Prompt(messages) == IF messages # <<>> THEN Last(messages).content ELSE ""

\* Python truth of an optional string, and of an optional integer (0: absent).
Truthy(x) == x # None /\ x # ""
TruthyInt(n) == n # 0
TruthySig(x) == x # <<>>

\* api_client.py:256-259: a manual signature is used as it is.
SignManual ==
    /\ spc = "start"
    /\ TruthySig(args.manual_signature)
    /\ \E now \in Clock, u \in Uuids :
          signed' = [signature |-> args.manual_signature,
                     timestamp |-> IF TruthyInt(args.manual_timestamp)
                                   THEN args.manual_timestamp ELSE now,
                     request_id |-> IF Truthy(args.manual_request_id)
                                    THEN args.manual_request_id ELSE u]
    /\ spc' = "signed"
    /\ UNCHANGED <<args, resolved_parent_id, history_messages, netlog, sigFailed>>
    /\ SignOnly

\* api_client.py:260-267: the helper reports success.
SignBrowserOk ==
    /\ spc = "start"
    /\ ~TruthySig(args.manual_signature)
    /\ args.use_browser_signature
    /\ \E now \in Clock, u \in Uuids :
          LET sig_data == get_signature_sync(Prompt(args.messages), args.user_id, now, u)
          IN /\ sig_data.success
             /\ signed' = [signature |-> sig_data.signature,
                           timestamp |-> sig_data.timestamp,
                           request_id |-> sig_data.request_id]
    /\ spc' = "signed"
    /\ UNCHANGED <<args, resolved_parent_id, history_messages, netlog, sigFailed>>
    /\ SignOnly

\* The success flag of the helper left unchecked: the call goes on unsigned.
SignBrowserFailureIgnored ==
    /\ spc = "start"
    /\ ~TruthySig(args.manual_signature)
    /\ args.use_browser_signature
    /\ \E now \in Clock, u \in Uuids :
          ~get_signature_sync(Prompt(args.messages), args.user_id, now, u).success
    /\ spc' = "signed"
    /\ sigFailed' = TRUE
    /\ UNCHANGED <<args, signed, resolved_parent_id, history_messages, netlog>>
    /\ SignOnly

\* api_client.py:262-264: the helper reports a failure, send_message raises.
SignBrowserFails ==
    /\ spc = "start"
    /\ ~TruthySig(args.manual_signature)
    /\ args.use_browser_signature
    /\ \E now \in Clock, u \in Uuids :
          ~get_signature_sync(Prompt(args.messages), args.user_id, now, u).success
    /\ spc' = "raised"
    /\ sigFailed' = TRUE
    /\ UNCHANGED <<args, signed, resolved_parent_id, history_messages, netlog>>
    /\ SignOnly

\* api_client.py:268-272: the Python HMAC implementation.
SignPythonOk ==
    /\ spc = "start"
    /\ ~TruthySig(args.manual_signature)
    /\ ~args.use_browser_signature
    /\ ~SigningRaises(Prompt(args.messages))
    /\ \E now \in Clock, u \in Uuids :
          signed' = [signature |-> generate_signature(
                                       build_sorted_payload(now, u, args.user_id),
                                       Prompt(args.messages), now),
                     timestamp |-> now,
                     request_id |-> u]
    /\ spc' = "signed"
    /\ UNCHANGED <<args, resolved_parent_id, history_messages, netlog, sigFailed>>
    /\ SignOnly

\* api_client.py:272: the exception of _generate_signature propagates.
SignPythonFails ==
    /\ spc = "start"
    /\ ~TruthySig(args.manual_signature)
    /\ ~args.use_browser_signature
    /\ SigningRaises(Prompt(args.messages))
    /\ spc' = "raised"
    /\ sigFailed' = TRUE
    /\ UNCHANGED <<args, signed, resolved_parent_id, history_messages, netlog>>
    /\ SignOnly

\* The histories get_chat may return, already linearised by _history_to_messages:
\* the messages of the chain and its currentId.
Histories == {[messages |-> <<>>, current_id |-> None],
              [messages |-> <<Msg("user", "old")>>, current_id |-> "h1"]}

\* api_client.py:278-285: the history is fetched and used.
FetchHistoryOk ==
    /\ spc = "signed"
    /\ args.include_history
    /\ \E h \in Histories :
          /\ history_messages' = h.messages
          /\ resolved_parent_id' = IF resolved_parent_id = None
                                   THEN h.current_id ELSE resolved_parent_id
    /\ netlog' = Append(netlog, [op |-> "get_chat"])
    /\ spc' = "ready"
    /\ UNCHANGED <<args, signed, sigFailed>>
    /\ SignOnly

\* api_client.py:286-289: the fetch raises, the history stays empty.
FetchHistoryFails ==
    /\ spc = "signed"
    /\ args.include_history
    /\ history_messages' = <<>>
    /\ netlog' = Append(netlog, [op |-> "get_chat"])
    /\ spc' = "ready"
    /\ UNCHANGED <<args, signed, resolved_parent_id, sigFailed>>
    /\ SignOnly

\* api_client.py:278: include_history is false.
SkipHistory ==
    /\ spc = "signed"
    /\ ~args.include_history
    /\ spc' = "ready"
    /\ UNCHANGED <<args, signed, resolved_parent_id, history_messages, netlog, sigFailed>>
    /\ SignOnly

\* Query parameters that name no user.
build_completion_params_anonymous(timestamp, request_id, user_id) ==
    [timestamp |-> Str(timestamp),
     requestId |-> request_id,
     user_id |-> "",
     signature_timestamp |-> Str(timestamp)]

\* api_client.py:96-152: the query parameters that carry signed values.
build_completion_params(timestamp, request_id, user_id) ==
    [timestamp |-> Str(timestamp),
     requestId |-> request_id,
     user_id |-> user_id,
     signature_timestamp |-> Str(timestamp)]

\* api_client.py:291-345: the body, the query parameters and the headers of the POST.
PostCompletions ==
    /\ spc = "ready"
    /\ netlog' = Append(netlog,
          [op |-> "post",
           params |-> build_completion_params(signed.timestamp, signed.request_id,
                                              args.user_id),
           x_signature |-> signed.signature,
           messages |-> history_messages \o args.messages,
           signature_prompt |-> Prompt(args.messages),
           parent_id |-> resolved_parent_id])
    /\ spc' = "posted"
    /\ UNCHANGED <<args, signed, resolved_parent_id, history_messages, sigFailed>>
    /\ SignOnly

NoSignature == [signature |-> <<>>, timestamp |-> 0, request_id |-> None]

SignInit ==
    /\ spc = "start"
    /\ args \in ArgSets
    /\ signed = NoSignature
    /\ resolved_parent_id = args.parent_message_id
    /\ history_messages = <<>>
    /\ netlog = <<>>
    /\ sigFailed = FALSE

SignIdle ==
    /\ spc = "idle"
    /\ args = None
    /\ signed = NoSignature
    /\ resolved_parent_id = None
    /\ history_messages = <<>>
    /\ netlog = <<>>
    /\ sigFailed = FALSE

DemuxIdle ==
    /\ dpc = "idle"
    /\ in_thinking = FALSE
    /\ events = <<>>
    /\ used = 0
    /\ faulted = FALSE

SignNext ==
    \/ SignManual
    \/ SignBrowserOk
    \/ SignBrowserFails
    \/ SignPythonOk
    \/ SignPythonFails
    \/ FetchHistoryOk
    \/ FetchHistoryFails
    \/ SkipHistory
    \/ PostCompletions

-----------------------------------------------------------------------------
(* The default chat session of the proxy, server.py:47-56 and 753-761 *)

Requests == 1..MaxRequests

\* Values of _proxy_chat_id and of Chat.id: None, the empty string, an identifier.
NoChat == <<"None">>
EmptyId == <<>>
ChatId(n) == <<"chat", n>>

\* Python truth of an identifier: None and "" are false.
TruthyId(x) == x # NoChat /\ x # EmptyId

\* models.py:45-54: Chat.from_api_response, id=data.get("id", ""); the n-th
\* session the backend creates is chat n.
from_api_response(has_id, n) == IF has_id THEN ChatId(n) ELSE EmptyId

\* server.py:753-754: the request arrives, its coroutine waits for the body.
Receive(r) ==
    /\ hpc[r] = "new"
    /\ hpc' = [hpc EXCEPT ![r] = "awaiting"]
    /\ UNCHANGED <<proxy_chat_id, chat_of, ncreated>>
    /\ SessOnly

\* server.py:52-53: the cached identifier is returned.
EnsureCached(r) ==
    /\ hpc[r] = "awaiting"
    /\ TruthyId(proxy_chat_id)
    /\ chat_of' = [chat_of EXCEPT ![r] = proxy_chat_id]
    /\ hpc' = [hpc EXCEPT ![r] = "handled"]
    /\ UNCHANGED <<proxy_chat_id, ncreated>>
    /\ SessOnly

\* The test of the cache, server.py:52.
MustCreate == ~TruthyId(proxy_chat_id)

\* server.py:54-56: the session is created and its identifier cached.  The
\* handler does not await between the body and its return, so the test and the
\* assignment are one step of the event loop.
EnsureCreates(r) ==
    /\ hpc[r] = "awaiting"
    /\ MustCreate
    /\ \E has_id \in BOOLEAN :
          LET id == from_api_response(has_id, ncreated + 1)
          IN /\ proxy_chat_id' = id
             /\ chat_of' = [chat_of EXCEPT ![r] = id]
    /\ ncreated' = ncreated + 1
    /\ hpc' = [hpc EXCEPT ![r] = "handled"]
    /\ SessOnly

\* server.py:54 and api_client.py:217-221: create_chat raises, the request fails.
EnsureFails(r) ==
    /\ hpc[r] = "awaiting"
    /\ MustCreate
    /\ hpc' = [hpc EXCEPT ![r] = "failed"]
    /\ UNCHANGED <<proxy_chat_id, chat_of, ncreated>>
    /\ SessOnly

SessInit ==
    /\ proxy_chat_id = NoChat
    /\ hpc = [r \in Requests |-> "new"]
    /\ chat_of = [r \in Requests |-> NoChat]
    /\ ncreated = 0

SessIdle ==
    /\ proxy_chat_id = NoChat
    /\ hpc = <<>>
    /\ chat_of = <<>>
    /\ ncreated = 0

SessNext ==
    \E r \in Requests :
        \/ Receive(r)
        \/ EnsureCached(r)
        \/ EnsureCreates(r)
        \/ EnsureFails(r)

-----------------------------------------------------------------------------
(* Tool-call synthesis of the proxy, server.py:132-338.                     *)
(* A declared tool is [name, params]: the name of its function and the keys *)
(* of its parameters' properties.  A tool call is [name, arguments].        *)

ARG_SYNONYMS ==
    << KV("filepath", "path"), KV("file_path", "path"), KV("filename", "path"),
       KV("file", "path"), KV("cmd", "command") >>

TOOL_NAME_SYNONYMS ==
    << KV("writefile", "write"), KV("write_file", "write"), KV("save_file", "write"),
       KV("save", "write"), KV("create_file", "write"), KV("readfile", "read"),
       KV("read_file", "read"), KV("open_file", "read"), KV("edit_file", "edit"),
       KV("apply_patch", "patch") >>

\* name.lower().replace("_", "").replace("-", "")
normalize_tool_name(name) == Replace(Replace(Lower(name), "_", ""), "-", "")

\* x in xs, for a list
InList(x, xs) == \E n \in 1..Len(xs) : xs[n] = x

\* next((t for t in xs if P(t)), None): the index of the first such element, 0 for None
FirstWith(xs, P(_)) == MinOrZero({n \in 1..Len(xs) : P(xs[n])})

\* The last element of xs with the property, 0 if none.
LastWith(xs, P(_)) == MaxOrZero({n \in 1..Len(xs) : P(xs[n])})

\* The lists of a list of lists, one after the other.
RECURSIVE Concat(_)
Concat(lists) == IF lists = <<>> THEN <<>> ELSE Head(lists) \o Concat(Tail(lists))

\* Optional[str]: <<>> is None, <<s>> the string s.
NoStr == <<>>
Some(s) == <<s>>
\* a or b
OrElse(a, b) == IF a # NoStr /\ a[1] # "" THEN a ELSE b
\* `not a`
Falsy(a) == a = NoStr \/ a[1] = ""

\* Lines 199-202: the normalized name of a tool is the target, or a synonym of it.
ResolvesTo(norm, target_norm) ==
    \/ norm = target_norm
    \/ \E i \in 1..Len(TOOL_NAME_SYNONYMS) : TOOL_NAME_SYNONYMS[i] = KV(norm, target_norm)

\* The allowed tool `target` resolves to, as an index of allowed_tools (0 for None).
resolve_tool_name(target, allowed_tools) ==
    With(normalize_tool_name(target),
         LAMBDA target_norm :
             FirstWith(allowed_tools,
                       LAMBDA tool : ResolvesTo(normalize_tool_name(tool), target_norm)))

\* tool_params_by_name.get(name) (server.py:798-804): a later tool of the same name
\* replaces an earlier one; <<>> stands for None too, which the code does not tell
\* from an empty list.
ParamsOf(tools, name) ==
    With(LastWith(tools, LAMBDA t : t.name = name),
         LAMBDA n : IF n = 0 THEN <<>> ELSE tools[n].params)

\* Lines 211-217: a key is kept, and the value of a synonym is also stored under
\* the canonical key ("" when the key is no synonym).
FreeStep(normalized, key, value, synonym) ==
    IF synonym # "" /\ synonym # key
    THEN Put(Put(normalized, key, value), synonym, value)
    ELSE Put(normalized, key, value)

\* _normalize_args without a schema.
RECURSIVE normalize_args_free(_, _, _)
normalize_args_free(kvs, n, normalized) ==
    IF n > Len(kvs) THEN normalized
    ELSE normalize_args_free(kvs, n + 1,
             FreeStep(normalized, kvs[n].k, kvs[n].v,
                      GetOr(ARG_SYNONYMS, normalize_tool_name(kvs[n].k), "")))

\* allowed_norm (line 220): from the normalized spelling of a declared parameter to
\* its declared spelling, the last one declared.
RECURSIVE allowed_norm(_, _, _)
allowed_norm(allowed, n, table) ==
    IF n > Len(allowed) THEN table
    ELSE allowed_norm(allowed, n + 1, Put(table, normalize_tool_name(allowed[n]), allowed[n]))

\* Lines 224-238: the key an argument is stored under; synonym is "" when the key is
\* no synonym, syn_norm its normalized spelling.
TargetKey(key, key_norm, synonym, syn_norm, table) ==
    IF Has(table, key_norm) THEN GetOr(table, key_norm, key)
    ELSE IF key_norm = "path" /\ Has(table, "filepath") THEN GetOr(table, "filepath", key)
    ELSE IF synonym # "" /\ Has(table, syn_norm) THEN GetOr(table, syn_norm, key)
    ELSE key
TargetOfSynonym(key, key_norm, synonym, table) ==
    TargetKey(key, key_norm, synonym, normalize_tool_name(synonym), table)
TargetOf(key, key_norm, table) ==
    TargetOfSynonym(key, key_norm, GetOr(ARG_SYNONYMS, key_norm, ""), table)

RECURSIVE SchemaFold(_, _, _, _)
SchemaFold(kvs, table, n, normalized) ==
    IF n > Len(kvs) THEN normalized
    ELSE SchemaFold(kvs, table, n + 1,
             Put(normalized, TargetOf(kvs[n].k, normalize_tool_name(kvs[n].k), table), kvs[n].v))

\* _normalize_args with the declared parameters of the tool.
normalize_args_schema(kvs, allowed) == SchemaFold(kvs, allowed_norm(allowed, 1, <<>>), 1, <<>>)

\* _normalize_args(args, allowed_params)
normalize_args_with(kvs, allowed) ==
    IF allowed = <<>> THEN normalize_args_free(kvs, 1, <<>>)
    ELSE normalize_args_schema(kvs, allowed)
\* _normalize_args(args, tool_params_by_name.get(name))
normalize_args(kvs, tools, name) == normalize_args_with(kvs, ParamsOf(tools, name))

\* A call as parsed: name and arguments are JSON values (JNull for None).
RawCall(name, arguments) == [name |-> name, arguments |-> arguments]
\* A call as emitted: the name is a string, the arguments a dict.
Call(name, arguments) == [name |-> name, arguments |-> arguments]

\* The result of a synthesis stage: a list of calls, None, or an exception.
Calls(cs) == [st |-> "calls", calls |-> cs]
NoCalls == [st |-> "none", calls |-> <<>>]
Raised == [st |-> "raised", calls |-> <<>>]

\* Python's `a or b` on JSON values
JOr(a, b) == IF JTruthy(a) THEN a ELSE b

\* Lines 283-291: a call in the OpenAI shape, its name and arguments under "function".
FromFunction(call, func) ==
    IF IsJObj(func)
    THEN <<RawCall(JOr(Get(func.items, "name"), Get(call.items, "name")),
                   GetOr(func.items, "arguments", JObj(<<>>)))>>
    ELSE <<>>

\* One element of the list _coerce_tool_calls reads: <<>> when it is dropped.
CoercedCall(call) ==
    IF ~IsJObj(call) THEN <<>>
    ELSE IF Has(call.items, "name") /\ Has(call.items, "arguments")
         THEN <<RawCall(Get(call.items, "name"), Get(call.items, "arguments"))>>
    ELSE FromFunction(call, Get(call.items, "function"))

\* _coerce_tool_calls
coerce_tool_calls(raw_calls) ==
    Concat([n \in 1..Len(raw_calls) |-> CoercedCall(raw_calls[n])])

\* A name a dict cannot be asked for: a list or a dict is unhashable.
Unhashable(x) == (IsJArr(x) \/ IsJObj(x))

\* Line 252 with the check of the name left out.
NameAllowedUnchecked(name, allowed_tools) == TRUE
\* Line 252: `name not in allowed_tools`.
NameAllowedCheck(name, allowed_tools) == InList(name, allowed_tools)

\* Lines 250-251: a truthy name is replaced by what it is a synonym of.
SynonymName(name) ==
    IF JTruthy(name) /\ IsJStr(name) THEN JStr(GetOr(TOOL_NAME_SYNONYMS, name.s, name.s))
    ELSE name

\* Lines 252-261: the name the call goes on with, NoStr when the call is skipped.
ResolvedName(name, allowed_tools) ==
    IF JTruthy(name) /\ IsJStr(name) /\ NameAllowedCheck(name.s, allowed_tools)
    THEN Some(name.s)
    ELSE IF IsJStr(name) /\ name.s \in {"write", "edit"}
         THEN With(FirstWith(allowed_tools, LAMBDA t : In(name.s, t)),
                   LAMBDA match : IF match = 0 THEN NoStr ELSE Some(allowed_tools[match]))
    ELSE NoStr

\* Lines 262-267: arguments given as a string are parsed; JNull when they do not parse.
LoadedArguments(arguments) ==
    IF IsJStr(arguments) THEN json_loads(arguments.s).v ELSE arguments

\* Lines 268-271
NormalizedCall(name, arguments, tools) ==
    IF name = NoStr \/ ~IsJObj(arguments) THEN <<>>
    ELSE <<Call(name[1], normalize_args(arguments.items, tools, name[1]))>>

\* One call of _normalize_tool_calls: <<>> when the call is skipped, the normalized
\* call in a list otherwise.
normalize_tool_call(call, allowed_tools, tools) ==
    NormalizedCall(ResolvedName(SynonymName(call.name), allowed_tools),
                   LoadedArguments(call.arguments), tools)

\* `normalized or None`
CallsOrNone(calls) == IF calls = <<>> THEN NoCalls ELSE Calls(calls)

\* _normalize_tool_calls: the calls whose name is (or resolves to) an allowed tool and
\* whose arguments are a dict; None when none is left; a truthy unhashable name raises
\* TypeError at the lookup of line 251.
normalize_tool_calls(tool_calls, allowed_tools, tools) ==
    IF \E n \in 1..Len(tool_calls) : JTruthy(tool_calls[n].name) /\ Unhashable(tool_calls[n].name)
    THEN Raised
    ELSE CallsOrNone(Concat([n \in 1..Len(tool_calls) |->
                                normalize_tool_call(tool_calls[n], allowed_tools, tools)]))

\* The code fence of Markdown is written with the grave accent, a character a TLA+
\* string cannot hold: the texts of the model write it ~.
Backtick == "~"
Fence == "~~~"

\* Lines 147-148 of _try_parse_snippet
Repaired(snippet) == Replace(Replace(Replace(snippet, "'", "\""), ",}", "}"), ",]", "]")

\* Lines 155-166: the snippet between the first opening and the last closing bracket
\* and its repair, the texts _try_parse_snippet parses; none when the brackets are
\* missing or out of order.
try_parse_snippet(raw, start, end) ==
    IF start # 0 /\ end # 0 /\ end > start
    THEN <<SubSeq(raw, start, end), Repaired(SubSeq(raw, start, end))>>
    ELSE <<>>

\* Lines 133-137
Unfenced(raw) == IF StartsWith(raw, "json") THEN Strip(From(raw, 5)) ELSE raw
Stripped(raw) ==
    IF StartsWith(raw, Fence) THEN Unfenced(StripChars(raw, {Backtick, "\n", " "})) ELSE raw

\* The texts _repair_json parses, in its order: the whole text, the array snippet,
\* the object snippet.
ParseCandidates(raw) ==
    <<raw>> \o Concat([n \in 1..2 |->
                 try_parse_snippet(raw, Find(raw, <<"[", "{">>[n], 1), RFind(raw, <<"]", "}">>[n]))])

\* The value of the first text that json.loads accepts, JNull (None) when it
\* accepts none.  A snippet begins with a bracket: it does not parse to None.
RECURSIVE FirstParsed(_, _)
FirstParsed(texts, n) ==
    IF n > Len(texts) THEN JNull
    ELSE With(json_loads(texts[n]),
              LAMBDA r : IF r.ok THEN r.v ELSE FirstParsed(texts, n + 1))

\* _repair_json
repair_json(raw) == FirstParsed(ParseCandidates(Stripped(Strip(raw))), 1)

\* Lines 306-335: the calls the parsed data holds, before they are normalized.
RawCallsOf(data) ==
    IF IsJArr(data) THEN coerce_tool_calls(data.items)
    ELSE IF ~IsJObj(data) THEN <<>>
    ELSE IF Has(data.items, "function") /\ ~Has(data.items, "tool_calls") /\ ~Has(data.items, "tool")
         THEN coerce_tool_calls(<<data>>)
    ELSE IF Has(data.items, "tool_calls") /\ IsJArr(Get(data.items, "tool_calls"))
         THEN coerce_tool_calls(Get(data.items, "tool_calls").items)
    ELSE IF Has(data.items, "tool") /\ Has(data.items, "arguments")
         THEN <<RawCall(Get(data.items, "tool"), Get(data.items, "arguments"))>>
    ELSE <<>>

\* _extract_tool_call
extract_tool_call(text, allowed_tools, tools) ==
    IF text = "" THEN NoCalls
    ELSE With(repair_json(text),
              LAMBDA data : IF ~JTruthy(data) THEN NoCalls
                            ELSE normalize_tool_calls(RawCallsOf(data), allowed_tools, tools))

-----------------------------------------------------------------------------
(* Partial recovery, validation and the heuristics of the proxy,            *)
(* server.py:341-573.                                                       *)

\* re.search(r'[:=]\s*"', src[p:]): the index after the match, 0 if there is none.
SeparatorEnd(src, p) ==
    With(FirstIdx(p, Len(src), LAMBDA k : /\ SubSeq(src, k, k) \in {":", "="}
                                          /\ Ch(src, SkipWs(src, k + 1)) = "\""),
         LAMBDA sep : IF sep = 0 THEN 0 ELSE SkipWs(src, sep + 1) + 1)

\* The while loop of _scan_quoted_value: the index of the closing quote, Len(src) + 1
\* when the string is not closed.  A backslash that is not escaped escapes the
\* character after it.
RECURSIVE ClosingQuote(_, _)
ClosingQuote(src, i) ==
    With(FirstIdx(i, Len(src), LAMBDA k : SubSeq(src, k, k) \in {"\"", "\\"}),
         LAMBDA j : IF j = 0 THEN Len(src) + 1
                    ELSE IF SubSeq(src, j, j) = "\"" THEN j
                    ELSE ClosingQuote(src, j + 2))

\* Lines 378-396: the value that starts at `start`, None when no separator was found.
QuotedFrom(src, start) ==
    IF start = 0 THEN NoStr ELSE Some(SubSeq(src, start, ClosingQuote(src, start) - 1))

\* _scan_quoted_value
scan_quoted_value(src, key) ==
    With(Find(Lower(src), key, 1),
         LAMBDA key_idx : IF key_idx = 0 THEN NoStr
                          ELSE QuotedFrom(src, SeparatorEnd(src, key_idx + Len(key))))

PartialCandidates ==
    << "write", "write_file", "writefile", "save_file", "edit", "edit_file", "apply_patch",
       "read", "read_file", "readfile", "open_file" >>

\* cleaned in (".", "./") or cleaned.endswith("/") or cleaned.endswith("\\")
IsDirectoryMarker(cleaned) ==
    cleaned \in {".", "./"} \/ EndsWith(cleaned, "/") \/ EndsWith(cleaned, "\\")

\* Lines 367-368: the tool name itself when it is allowed, else the first allowed tool
\* whose name holds it.
AllowedFor(tool_name, allowed_tools) ==
    IF InList(tool_name, allowed_tools) THEN Some(tool_name)
    ELSE With(FirstWith(allowed_tools, LAMBDA t : In(tool_name, t)),
              LAMBDA match : IF match = 0 THEN NoStr ELSE Some(allowed_tools[match]))

\* Lines 350-370: the tool the text names, None when it names none that is allowed.
PartialToolName(lowered, allowed_tools) ==
    With(FirstWith(PartialCandidates, LAMBDA candidate : In(candidate, lowered)),
         LAMBDA found :
             IF found = 0 THEN NoStr
             ELSE AllowedFor(GetOr(TOOL_NAME_SYNONYMS, PartialCandidates[found],
                                   PartialCandidates[found]),
                             allowed_tools))

\* Lines 398-402: the values scanned from the text, by key.
ScannedKeys == {"filepath", "file_path", "path", "filename", "content"}
Scanned(scan_text) == [key \in ScannedKeys |-> scan_quoted_value(scan_text, key)]

\* Lines 398-400
PartialPath(first, second) == IF first = NoStr THEN second ELSE first
\* Lines 402-404
PartialContent(content) ==
    IF content = NoStr THEN NoStr ELSE Some(RStripChars(RStrip(content[1]), {"}", "\"", " "}))

\* Lines 416-420
PartialArgs(path, content) ==
    (IF Falsy(path) THEN <<>> ELSE <<KV("path", JStr(path[1]))>>)
    \o (IF content = NoStr THEN <<>> ELSE <<KV("content", JStr(content[1]))>>)

\* Lines 422-425
PartialResult(tool_name, arguments) ==
    IF arguments = <<>> THEN NoCalls ELSE Calls(<<Call(tool_name, arguments)>>)

\* Lines 406-425
PartialCall(tool_name, path, content, tools) ==
    IF tool_name \in {"write", "edit"} /\ (Falsy(path) \/ content = NoStr) THEN NoCalls
    ELSE IF tool_name = "read" /\ (Falsy(path) \/ IsDirectoryMarker(Strip(path[1]))) THEN NoCalls
    ELSE PartialResult(tool_name, normalize_args(PartialArgs(path, content), tools, tool_name))

\* Lines 369-425, with the values scanned from the text.
PartialFrom(tool_name, found, tools) ==
    IF Falsy(tool_name) THEN NoCalls
    ELSE PartialCall(tool_name[1],
                     PartialPath(OrElse(found["filepath"], found["file_path"]),
                                 OrElse(found["path"], found["filename"])),
                     PartialContent(found["content"]),
                     tools)

\* Lines 348-349
PartialScan(scan_text, allowed_tools, tools) ==
    PartialFrom(PartialToolName(Lower(scan_text), allowed_tools), Scanned(scan_text), tools)

\* _extract_partial_tool_call
extract_partial_tool_call(text, allowed_tools, tools) ==
    IF text = "" THEN NoCalls
    ELSE PartialScan(Replace(text, "\\\"", "\""), allowed_tools, tools)

\* _is_valid_write_call: the first call of the list is looked at.
CallToValidate(tool_calls) == tool_calls[1]

\* Lines 436-443
ValidReadPath(path) ==
    IsJStr(path) /\ Strip(path.s) # "" /\ ~IsDirectoryMarker(Strip(path.s))

\* Lines 432-450
ValidCall(name, arguments) ==
    IF name \notin {"write", "edit", "read"} THEN TRUE
    ELSE IF name = "read"
         THEN ValidReadPath(JOr(JOr(Get(arguments, "path"), Get(arguments, "filePath")),
                                Get(arguments, "file_path")))
    ELSE /\ IsJStr(Get(arguments, "content"))
         /\ Strip(Get(arguments, "content").s) # ""
         /\ \E k \in {"path", "filePath", "file_path"} : Has(arguments, k)

is_valid_write_call(tool_calls) ==
    IF tool_calls = <<>> THEN FALSE
    ELSE ValidCall(CallToValidate(tool_calls).name, CallToValidate(tool_calls).arguments)

ListIntent == << "list", "show", "inspect", "files", "folders", "directories", "ls", "tree" >>

\* The arguments _fallback_tool_call gives a listing tool: the first of `keys` the
\* tool declares, with its value.
DefaultArgs(params, keys) ==
    With(FirstWith(keys, LAMBDA key : InList(key.k, params)),
         LAMBDA n : IF n = 0 THEN <<>> ELSE <<KV(keys[n].k, JStr(keys[n].v))>>)

\* Lines 474-496
ListingCall(listing, allowed_tools, tools) ==
    IF InList("glob", allowed_tools)
    THEN Calls(<<Call("glob", DefaultArgs(ParamsOf(tools, "glob"),
                        <<KV("pattern", "**/*"), KV("path", "."), KV("cwd", ".")>>))>>)
    ELSE IF listing # 0
         THEN Calls(<<Call(<<"ls", "list", "list_dir">>[listing],
                           DefaultArgs(ParamsOf(tools, <<"ls", "list", "list_dir">>[listing]),
                                       <<KV("path", "."), KV("cwd", ".")>>))>>)
    ELSE NoCalls

\* _fallback_tool_call; user_text is the lower-cased text of the last user message.
fallback_tool_call(user_text, allowed_tools, tools) ==
    IF ~AnyIn(ListIntent, Lower(user_text)) THEN NoCalls
    ELSE ListingCall(FirstWith(<<"ls", "list", "list_dir">>,
                               LAMBDA candidate : InList(candidate, allowed_tools)),
                     allowed_tools, tools)

ReadIntent == << "read", "open", "show", "cat", "contents", "what is in", "what's in", "display" >>

\* A match of the regular expression of _fallback_read_call: the group and the index
\* after the match; NoMatch when the pattern does not match at the position.
Match(group, end) == [ok |-> TRUE, group |-> group, end |-> end]
NoMatch == [ok |-> FALSE, group |-> "", end |-> 0]

\* `q([^q]+)q` at p, where the quote character q is; e is the next q.
QuotedUpTo(s, p, e) == IF e > p + 1 THEN Match(SubSeq(s, p + 1, e - 1), e + 1) ELSE NoMatch
MatchQuoted(s, p, q) == QuotedUpTo(s, p, Find(s, q, p + 1))

\* The class [\w./-]
FileChars == WordChars \cup {".", "/", "-"}

\* The index after the run of file (alphanumeric) characters that starts at i.
FileRunEnd(s, i) == FirstIdx(i, Len(s) + 1, LAMBDA k : Ch(s, k) \notin FileChars)
AlnumEnd(s, i) == FirstIdx(i, Len(s) + 1, LAMBDA k : Ch(s, k) \notin AlnumChars)

\* The last dot of s[p+1 .. d] that an alphanumeric character follows, 0 if none.
LastExtensionDot(s, p, d) ==
    LastIdx(p + 1, d, LAMBDA k : SubSeq(s, k, k) = "." /\ Ch(s, k + 1) \in AlnumChars)

\* `([\w./-]+\.[A-Za-z0-9]+)` at p: the file characters up to the last dot d that an
\* alphanumeric character follows, and the alphanumeric characters after it, up to e.
FileUpTo(s, p, e) == Match(SubSeq(s, p, e - 1), e)
FileWithDot(s, p, d) == IF d = 0 THEN NoMatch ELSE FileUpTo(s, p, AlnumEnd(s, d + 1))
MatchFile(s, p) == FileWithDot(s, p, LastExtensionDot(s, p, FileRunEnd(s, p) - 1))

\* The pattern at p: a quote character is no file character, so that the
\* alternatives exclude one another.
MatchAt(s, p) ==
    IF SubSeq(s, p, p) \in {Backtick, "\"", "'"} THEN MatchQuoted(s, p, SubSeq(s, p, p))
    ELSE IF SubSeq(s, p, p) \in FileChars THEN MatchFile(s, p)
    ELSE NoMatch

\* The groups of the successive matches, from p on; matches[k] is the match at k.
RECURSIVE Groups(_, _)
Groups(matches, p) ==
    With(FirstIdx(p, Len(matches), LAMBDA k : matches[k].ok),
         LAMBDA m : IF m = 0 THEN <<>>
                    ELSE <<matches[m].group>> \o Groups(matches, matches[m].end))

\* re.finditer(pattern, s): the groups of the successive matches
FindCandidates(s) == Groups([k \in 1..Len(s) |-> MatchAt(s, k)], 1)

\* A backslash, any character but a newline and k alphanumeric characters at the end
\* of t.
BackslashExtensionAtEnd(t, k) ==
    /\ Len(t) >= k + 2
    /\ \A j \in (Len(t) - k + 1)..Len(t) : SubSeq(t, j, j) \in AlnumChars
    /\ SubSeq(t, Len(t) - k, Len(t) - k) # "\n"
    /\ SubSeq(t, Len(t) - k - 1, Len(t) - k - 1) = "\\"

\* re.search(r"\\.[A-Za-z0-9]{1,6}$", c): at the end of c or before its final newline.
EndsWithBackslashExtension(c) ==
    \E t \in {c} \cup (IF EndsWith(c, "\n") THEN {SubSeq(c, 1, Len(c) - 1)} ELSE {}) :
        \E k \in 1..6 : BackslashExtensionAtEnd(t, k)

KnownExtensions == {".txt", ".md", ".json", ".py", ".yaml", ".yml", ".toml"}

\* _score
score(candidate) ==
    (IF In("/", candidate) \/ In("\\", candidate) THEN 2 ELSE 0)
    + (IF EndsWithBackslashExtension(candidate) THEN 3 ELSE 0)
    + (IF \E x \in KnownExtensions : EndsWith(candidate, x) THEN 2 ELSE 0)
    + (IF Len(candidate) > 2 THEN 1 ELSE 0)

\* Lines 538-540
Cleaned(cleaned) == IF cleaned # "" THEN <<cleaned>> ELSE <<>>

\* c.strip().strip(".,:;!?)") of every candidate, the empty ones dropped
CleanCandidates(candidates) ==
    Concat([n \in 1..Len(candidates) |->
               Cleaned(StripChars(Strip(candidates[n]), {".", ",", ":", ";", "!", "?", ")"}))])

\* The first element of the greatest of the scores.
FirstMax(xs, scores) ==
    xs[MinOrZero({n \in 1..Len(xs) : \A m \in 1..Len(xs) : scores[m] <= scores[n]})]

\* max(xs, key=score)
MaxByScore(xs) == FirstMax(xs, [n \in 1..Len(xs) |-> score(xs[n])])

\* Lines 553-563: a bare file name is looked up under the working directory; `dir` is
\* the directory ("" or ending with "/") of the file the lookup settles on, "" also
\* when it finds nothing.
ResolveInRepo(path, dir) ==
    IF ~StartsWith(path, "/") /\ ~In("/", path) /\ ~In("\\", path) THEN dir \o path ELSE path

\* Lines 570-572
WithFilePath(arguments, path, params) ==
    IF InList("filePath", params) /\ ~Has(arguments, "filePath")
    THEN Put(arguments, "filePath", JStr(path))
    ELSE arguments

\* Lines 565-572
ReadArgs(path, params) ==
    IF params = <<>> THEN <<KV("path", JStr(path)), KV("filePath", JStr(path))>>
    ELSE WithFilePath(normalize_args_with(<<KV("path", JStr(path))>>, params), path, params)

\* Lines 545-573
ReadCall(path, tool_name, tools, dir) ==
    IF ~(In(".", path) \/ In("/", path) \/ In("\\", path)) THEN NoCalls
    ELSE Calls(<<Call(tool_name, ReadArgs(ResolveInRepo(path, dir), ParamsOf(tools, tool_name)))>>)

\* Lines 542-573
ReadFrom(cleaned_candidates, tool_name, tools, dir) ==
    IF cleaned_candidates = <<>> THEN NoCalls
    ELSE ReadCall(MaxByScore(cleaned_candidates), tool_name, tools, dir)

\* Lines 505-573
ReadWith(resolved, user_text_raw, allowed_tools, tools, dir) ==
    IF resolved = 0 THEN NoCalls
    ELSE IF ~AnyIn(ReadIntent, Lower(user_text_raw)) THEN NoCalls
    ELSE ReadFrom(CleanCandidates(FindCandidates(user_text_raw)),
                  allowed_tools[resolved], tools, dir)

\* _fallback_read_call
fallback_read_call(user_text_raw, allowed_tools, tools, dir) ==
    ReadWith(resolve_tool_name("read", allowed_tools), user_text_raw, allowed_tools, tools, dir)

-----------------------------------------------------------------------------
(* chat_completions, server.py:753-930: what the handler derives from the   *)
(* request                                                                  *)

Tool(name, params) == [name |-> name, params |-> params]
Message(role, content, tool_call_id) ==
    [role |-> role, content |-> content, tool_call_id |-> tool_call_id]

\* tool_choice: absent, the strings "none" and "auto", or {"type": "function",
\* "function": {"name": ...}}.
NoChoice == [kind |-> "absent", name |-> ""]
ChoiceNone == [kind |-> "none", name |-> ""]
ChoiceAuto == [kind |-> "auto", name |-> ""]
Forced(name) == [kind |-> "function", name |-> name]

\* The request bodies of the model.
ToolSets ==
    { <<>>,
      <<Tool("write", <<"path", "content">>), Tool("read", <<"path">>)>>,
      <<Tool("write_file", <<"filePath", "content">>), Tool("read_file", <<"filePath">>)>>,
      <<Tool("glob", <<"pattern">>), Tool("edit", <<"path", "content">>)>> }
ToolChoices == {NoChoice, ChoiceNone, ChoiceAuto, Forced("read"), Forced("bash")}
UserTexts == {"hi", "read config.yaml", "list files", "cat 'a/b'", "update b.txt"}
MessageLists2 ==
    { <<Message("user", u, "")>> : u \in UserTexts }
    \cup { <<Message("user", "read a.txt", ""), Message("assistant", "", ""),
             Message("tool", "data", "call_1")>> }
Body(messages, tools, tool_choice, stream) ==
    [messages |-> messages, tools |-> tools, tool_choice |-> tool_choice, stream |-> stream]
Bodies ==
    { Body(m, t, c, s) : m \in MessageLists2, t \in ToolSets, c \in ToolChoices, s \in BOOLEAN }

\* Lines 768-773: the last message is a tool result.
post_tool_response(body) ==
    /\ body.messages # <<>>
    /\ (Last(body.messages).role \in {"tool", "function"} \/ Last(body.messages).tool_call_id # "")

\* A handler that works with the declared tools whatever tool_choice and the last
\* message are.
tools_of_declared(body) == body.tools
\* Lines 764-771: the tools the handler works with.
tools_of(body) ==
    IF body.tool_choice.kind = "none" \/ post_tool_response(body) THEN <<>> ELSE body.tools

\* Lines 784-790: the content of the last user message, "" when there is none.
last_user_raw(body) ==
    With(LastWith(body.messages, LAMBDA m : m.role = "user"),
         LAMBDA n : IF n = 0 THEN "" ELSE body.messages[n].content)
last_user(body) == Lower(last_user_raw(body))

\* Line 797
Names(tools) == [n \in 1..Len(tools) |-> tools[n].name]

\* Lines 805-808: only the forced tool when tool_choice names one of the tools.
ForcedOf(names, choice) ==
    IF choice.kind = "function" /\ choice.name # "" /\ InList(choice.name, names)
    THEN <<choice.name>> ELSE names

\* Lines 797-808: allowed_tools
allowed_tools_of(body) ==
    ForcedOf(Names(tools_of(body)),
             IF post_tool_response(body) THEN ChoiceNone ELSE body.tool_choice)

ActionKeywords ==
    << "create", "write", "edit", "modify", "delete", "remove", "save", "file", "run",
       "execute", "install", "search", "find", "list", "open", "read", "patch", "apply",
       "inspect", "show", "contents" >>

\* re.search(r"[\w./-]+\.[A-Za-z0-9]{1,6}\b", s): a dot after a file character, then
\* one to six alphanumeric characters and the end of the word.
mentions_file(s) ==
    \E d \in 2..Len(s) :
        /\ SubSeq(s, d, d) = "."
        /\ SubSeq(s, d - 1, d - 1) \in FileChars
        /\ \E e \in {AlnumEnd(s, d + 1)} : (e - (d + 1)) \in 1..6 /\ Ch(s, e) # "_"

\* Lines 812-839
actionable(body) == AnyIn(ActionKeywords, last_user(body)) \/ mentions_file(last_user_raw(body))

\* The outcome of a decision: the calls to answer with and the stage they come
\* from, no call, or an exception.
Outcome(stage, calls) == [st |-> "calls", source |-> stage, calls |-> calls]
NoOutcome == [st |-> "none", source |-> "", calls |-> <<>>]
RaisedOutcome == [st |-> "raised", source |-> "", calls |-> <<>>]

\* The calls of a stage as an outcome.
Staged(stage, result) ==
    IF result.st = "calls" THEN Outcome(stage, result.calls) ELSE NoOutcome

\* Lines 844-845: the listing heuristic, tried when no file is to be read and the
\* request is actionable.
ListingIfActionable(body, allowed_tools, tools) ==
    IF actionable(body)
    THEN Staged("listing heuristic", fallback_tool_call(last_user(body), allowed_tools, tools))
    ELSE NoOutcome

\* Lines 843-846
ReadOrListing(read, body, allowed_tools, tools) ==
    IF read.st = "calls" THEN Staged("read heuristic", read)
    ELSE ListingIfActionable(body, allowed_tools, tools)

\* Lines 841-846 left out: no heuristic is tried on the request alone.
short_circuit_absent(body, dir) == NoOutcome
\* Lines 841-846: the heuristics tried on the request alone.
short_circuit(body, dir) ==
    IF tools_of(body) = <<>> THEN NoOutcome
    ELSE ReadOrListing(fallback_read_call(last_user_raw(body), allowed_tools_of(body),
                                          tools_of(body), dir),
                       body, allowed_tools_of(body), tools_of(body))

\* Lines 872-874 and 912-914: strict parsing, then partial recovery.
StrictOrPartial(strict, text, allowed_tools, tools) ==
    IF strict.st = "calls" THEN Staged("strict parsing", strict)
    ELSE Staged("partial recovery", extract_partial_tool_call(text, allowed_tools, tools))

\* Lines 876-881 and 915-920: a call that is not valid gives way to the read
\* heuristic.
Revalidated(tool_call, body, allowed_tools, tools, dir) ==
    IF tool_call.st = "calls" /\ ~is_valid_write_call(tool_call.calls)
    THEN Staged("read heuristic",
                fallback_read_call(last_user_raw(body), allowed_tools, tools, dir))
    ELSE tool_call

\* Lines 883-890 and 921-926: the valid call, else the listing heuristic.
ValidOrListing(tool_call, body, allowed_tools, tools) ==
    IF tool_call.st = "calls" /\ is_valid_write_call(tool_call.calls) THEN tool_call
    ELSE ListingIfActionable(body, allowed_tools, tools)

\* Lines 872-890 and 912-926, with the result of strict parsing.
DecideFrom(strict, body, text, allowed_tools, tools, dir) ==
    IF strict.st = "raised" THEN RaisedOutcome
    ELSE ValidOrListing(Revalidated(StrictOrPartial(strict, text, allowed_tools, tools),
                                    body, allowed_tools, tools, dir),
                        body, allowed_tools, tools)

\* Lines 872-890 and 912-926: the decision on the buffered text of the backend.
decide_tool_call(body, text, dir) ==
    DecideFrom(extract_tool_call(text, allowed_tools_of(body), tools_of(body)),
               body, text, allowed_tools_of(body), tools_of(body), dir)

(* chat_completions, server.py:576-930: the backend call and the response   *)

\* One JSON object of the response: the body of a JSON response, or one `data:` chunk
\* of an SSE response.  content is NoStr where the object has none (or null);
\* tool_calls holds, for each call, the name and the dict that json.dumps serialises
\* into function.arguments; finish_reason "null" is None.
Part(object, role, content, tool_calls, finish_reason) ==
    [object |-> object, role |-> role, content |-> content,
     tool_calls |-> tool_calls, finish_reason |-> finish_reason]
DonePart == Part("[DONE]", "", NoStr, <<>>, "null")
ErrorPart(message) == Part("error", "", Some(message), <<>>, "null")
StopPart == Part("chat.completion.chunk", "", NoStr, <<>>, "stop")

\* _openai_response, _openai_tool_response, _stream_content, _stream_tool_calls
openai_response(content) == <<Part("chat.completion", "assistant", Some(content), <<>>, "stop")>>
openai_tool_response(tool_calls) ==
    <<Part("chat.completion", "assistant", NoStr, tool_calls, "tool_calls")>>
stream_content(content) ==
    <<Part("chat.completion.chunk", "assistant", Some(content), <<>>, "null"), StopPart, DonePart>>
stream_tool_calls(tool_calls) ==
    <<Part("chat.completion.chunk", "assistant", NoStr, tool_calls, "tool_calls"), DonePart>>

RetryHint == "Unable to generate tool call. Please retry."

\* What client.send_message does for one call: the events it yields, and whether it
\* raises after them.
Reply(evs, raises) == [events |-> evs, raises |-> raises]

\* A call under an alias of `write` in mixed case, with an alias of `path`.
AliasedCall == "{\"tool\":\"writeFile\",\"arguments\":{\"filepath\":\"a.txt\",\"content\":\"hi\"}}"

\* A call whose path travels under the key `file`.
FileKeyCall == "{\"tool\":\"write_file\",\"arguments\":{\"file\":\"b.txt\",\"content\":\"x\"}}"

\* A call of write whose path is the empty string.
EmptyPathCall == "{\"tool\":\"write\",\"arguments\":{\"path\":\"\",\"content\":\"x\"}}"

\* A call of write_file cut off before its content.
CutBeforeContent == "{\"tool\":\"write_file\",\"arguments\":{\"filePath\":\"b.txt\""

\* The texts of the model behind the backend.
ModelTexts ==
    { "Hello there.",
      AliasedCall,
      FileKeyCall,
      EmptyPathCall,
      CutBeforeContent,
      "",
      "{\"tool\":\"write\",\"arguments\":{\"path\":\"b.txt\",\"content\":\"new\"}}",
      "{\"tool\":\"write\",\"arguments\":{\"path\":\"b.txt\",\"content\":\"\"}}",
      "[{\"name\":\"read\",\"arguments\":{\"path\":\"a.txt\"}},{\"name\":\"write\",\"arguments\":{\"path\":\"b.txt\",\"content\":\" \"}}]",
      "{\"tool\":\"write_file\",\"arguments\":{\"filePath\":\"b.txt\",\"content\":\"\"}}",
      "{\"tool\":\"delete\",\"arguments\":{\"path\":\"b.txt\"}}",
      "{\"tool\":\"read_file\",\"arguments\":{\"path\":\"a.txt\"}}",
      "{\"tool\":\"read\",\"arguments\":{\"path\":\"./\"}}",
      "{\"tool\":\"glob\",\"arguments\":{\"pattern\":\"*.py\"}}",
      "~~~json\n{'tool':'edit','arguments':{'file':'b.txt','content':'x',}}\n~~~",
      "{\"tool\":\"write\",\"arguments\":{\"path\":\"b.txt\",\"content\":\"abc",
      "{\"tool_calls\":[{\"name\":[\"write\"],\"arguments\":{}}]}" }

BackendError == "500 Server Error"

\* A text in two fragments.
Halves(text) ==
    <<Ev("content", SubSeq(text, 1, Len(text) \div 2)),
      Ev("content", From(text, Len(text) \div 2 + 1))>>

Replies ==
    { Reply(<<Ev("content", t), Ev("done", "")>>, FALSE) : t \in ModelTexts }
    \cup { Reply(Halves(t) \o <<Ev("done", "")>>, FALSE) : t \in ModelTexts }
    \cup { Reply(<<Ev("thinking", "hm"), Ev("thinking_end", ""), Ev("content", " ok "), Ev("done", "")>>, FALSE),
           Reply(<<Ev("error", BackendError)>>, FALSE),
           Reply(<<Ev("content", "par"), Ev("error", BackendError)>>, FALSE),
           Reply(<<>>, TRUE),
           Reply(<<Ev("content", "par")>>, TRUE) }

\* The directories the lookup of a bare file name may settle on.
Dirs == {"", "src/"}

\* "".join(content_parts).strip() of _collect_glm_response
RECURSIVE ContentOf(_)
ContentOf(evs) ==
    IF evs = <<>> THEN ""
    ELSE (IF Head(evs).type = "content" THEN Head(evs).data ELSE "") \o ContentOf(Tail(evs))
collect_glm_response(evs) == Strip(ContentOf(evs))

EmptyBody == Body(<<>>, <<>>, NoChoice, FALSE)

\* config_utils.py:10-11: the values of GLM_PY_LEGACY_ENABLE_MUTATIONS and of
\* GLM_PY_LEGACY_ENABLE_TOOLS, NoStr for a variable that is not set.
Env(mutations, tools) == [mutations |-> mutations, tools |-> tools]
Environments ==
    { Env(NoStr, Some("1")), Env(Some("0"), Some("true")), Env(Some(" On"), Some("1")) }

\* config_utils.py:54-58
env_bool(value, default) ==
    IF value = NoStr THEN default
    ELSE Lower(Strip(value[1])) \in {"1", "true", "yes", "on"}

\* config_utils.py:61-64
legacy_mutations_enabled(env) == env_bool(env.mutations, FALSE)

\* config_utils.py:67-74
legacy_tools_enabled(env) == legacy_mutations_enabled(env) /\ env_bool(env.tools, FALSE)

ProxyInit ==
    /\ ppc = "idle"
    /\ request_body = EmptyBody
    /\ backend_calls = 0
    /\ reply = Reply(<<>>, FALSE)
    /\ pending = <<>>
    /\ sent_role = FALSE
    /\ full_text = ""
    /\ out = <<>>
    /\ out_kind = "none"
    /\ source = ""
    /\ fallback = NoOutcome
    /\ caller_gone = FALSE
    /\ environ \in Environments
    /\ system_messages = <<>>

ProxyIdle ==
    /\ ppc = "off"
    /\ request_body = EmptyBody
    /\ backend_calls = 0
    /\ reply = Reply(<<>>, FALSE)
    /\ pending = <<>>
    /\ sent_role = FALSE
    /\ full_text = ""
    /\ out = <<>>
    /\ out_kind = "none"
    /\ source = ""
    /\ fallback = NoOutcome
    /\ caller_gone = FALSE
    /\ environ = Env(NoStr, NoStr)
    /\ system_messages = <<>>

\* Lines 754-846: the request is read and the heuristics are tried on it, with
\* what glob.glob finds under the working directory.
ReceiveRequest ==
    /\ ppc = "idle"
    /\ \E b \in Bodies, dir \in Dirs :
          /\ request_body' = b
          /\ fallback' = short_circuit(b, dir)
    /\ ppc' = "received"
    /\ UNCHANGED <<backend_calls, reply, pending, sent_role, full_text, out, out_kind, source, caller_gone, environ, system_messages>>
    /\ ProxyOnly

\* The response that carries the calls of an outcome.
Respond(outcome) ==
    /\ out' = IF request_body.stream THEN stream_tool_calls(outcome.calls) ELSE openai_tool_response(outcome.calls)
    /\ out_kind' = IF request_body.stream THEN "sse" ELSE "json"
    /\ source' = outcome.source
    /\ ppc' = "responded"

\* Lines 846-852: a heuristic answers the request.
ShortCircuit ==
    /\ ppc = "received"
    /\ fallback.st = "calls"
    /\ Respond(fallback)
    /\ UNCHANGED <<request_body, fallback, backend_calls, reply, pending, sent_role, full_text, caller_gone, environ, system_messages>>
    /\ ProxyOnly

\* The system messages the handler writes: the tool prompt of _tool_prompt, the
\* instruction to answer from the tool results, the instruction to return JSON only.
ToolPromptMsg == "You are a tool-calling assistant."
FinalAnswerMsg == "Use the tool results above to answer the user."
JsonOnlyMsg == "Return ONLY valid JSON for a tool call"

\* server.py:106-109: _convert_messages puts the tool prompt first when there are tools.
convert_system(body) == IF tools_of(body) # <<>> THEN <<ToolPromptMsg>> ELSE <<>>
\* server.py:774-782: glm_messages.
glm_system(body) ==
    (IF post_tool_response(body) THEN <<FinalAnswerMsg>> ELSE <<>>) \o convert_system(body)
\* server.py:859-869 and 899-909: attempt_messages.
attempt_system(body) ==
    (IF actionable(body) THEN <<JsonOnlyMsg>> ELSE <<>>) \o glm_system(body)

\* Lines 871, 911 and 929 with 682-689: _collect_glm_response calls send_message.
CollectBackend ==
    /\ ppc = "received"
    /\ fallback.st # "calls"
    /\ ~(request_body.stream /\ tools_of(request_body) = <<>>)
    /\ \E r \in Replies :
          /\ reply' = r
          /\ pending' = r.events
    /\ backend_calls' = backend_calls + 1
    /\ system_messages' = IF tools_of(request_body) # <<>>
                          THEN attempt_system(request_body) ELSE glm_system(request_body)
    /\ ppc' = "collecting"
    /\ UNCHANGED <<request_body, fallback, sent_role, full_text, out, out_kind, source, caller_gone, environ>>
    /\ ProxyOnly

\* Lines 682-690: the loop of _collect_glm_response reads the next event.  The loop
\* is synchronous code inside the coroutine of the handler: nothing in it looks at
\* the connection of the caller.
CollectStep ==
    /\ ppc = "collecting"
    /\ pending # <<>>
    /\ pending' = Tail(pending)
    /\ UNCHANGED <<ppc, request_body, fallback, backend_calls, reply, sent_role, full_text, out, out_kind,
                   source, caller_gone, environ, system_messages>>
    /\ ProxyOnly

\* Line 691: the events are exhausted and the joined text is returned.
CollectFinish ==
    /\ ppc = "collecting"
    /\ pending = <<>>
    /\ ~reply.raises
    /\ full_text' = collect_glm_response(reply.events)
    /\ ppc' = "collected"
    /\ UNCHANGED <<request_body, fallback, backend_calls, reply, pending, sent_role, out, out_kind, source,
                   caller_gone, environ, system_messages>>
    /\ ProxyOnly

\* send_message raises while _collect_glm_response reads it: the handler raises.
CollectRaises ==
    /\ ppc = "collecting"
    /\ pending = <<>>
    /\ reply.raises
    /\ ppc' = "raised"
    /\ UNCHANGED <<request_body, fallback, backend_calls, reply, pending, sent_role, full_text, out, out_kind,
                   source, caller_gone, environ, system_messages>>
    /\ ProxyOnly

\* The caller closes its connection while the handler reads the backend.
CallerDisconnects ==
    /\ ppc \in {"collecting", "streaming"}
    /\ ~caller_gone
    /\ caller_gone' = TRUE
    /\ UNCHANGED <<ppc, request_body, fallback, backend_calls, reply, pending, sent_role, full_text, out,
                   out_kind, source, environ, system_messages>>
    /\ ProxyOnly

\* server.py:892 and 927: the content response of a request with tools, streamed
\* (`full_text or "Unable to generate tool call. Please retry."`) or not.
content_response(stream, text) ==
    IF stream
    THEN stream_content(IF text # "" THEN text ELSE RetryHint)
    ELSE openai_response(text)

\* Lines 872-892 and 912-927: the response to a request with tools.
DecideToolCall ==
    /\ ppc = "collected"
    /\ tools_of(request_body) # <<>>
    /\ \E dir \in Dirs : \E outcome \in {decide_tool_call(request_body, full_text, dir)} :
             CASE outcome.st = "raised" ->
                    /\ ppc' = "raised"
                    /\ UNCHANGED <<out, out_kind, source>>
               [] outcome.st = "calls" -> Respond(outcome)
               [] OTHER ->
                    /\ out' = content_response(request_body.stream, full_text)
                    /\ out_kind' = IF request_body.stream THEN "sse" ELSE "json"
                    /\ source' = "content"
                    /\ ppc' = "responded"
    /\ UNCHANGED <<request_body, fallback, backend_calls, reply, pending, sent_role, full_text, caller_gone, environ, system_messages>>
    /\ ProxyOnly

\* Lines 929-930: the response to a request without tools, not streamed.
RespondPlain ==
    /\ ppc = "collected"
    /\ tools_of(request_body) = <<>>
    /\ out' = openai_response(full_text)
    /\ out_kind' = "json"
    /\ source' = "content"
    /\ ppc' = "responded"
    /\ UNCHANGED <<request_body, fallback, backend_calls, reply, pending, sent_role, full_text, caller_gone, environ, system_messages>>
    /\ ProxyOnly

\* Lines 893-896 and 702-712: _stream_glm_response starts to read the backend.
OpenStream ==
    /\ ppc = "received"
    /\ fallback.st # "calls"
    /\ request_body.stream /\ tools_of(request_body) = <<>>
    /\ \E r \in Replies :
          /\ reply' = r
          /\ pending' = r.events
    /\ backend_calls' = backend_calls + 1
    /\ out_kind' = "sse"
    /\ source' = "pass-through"
    /\ system_messages' = glm_system(request_body)
    /\ ppc' = "streaming"
    /\ UNCHANGED <<request_body, fallback, sent_role, full_text, out, caller_gone, environ>>
    /\ ProxyOnly

\* A loop that forwards the first content event only.
ForwardedFirstOnly(chunk, role_sent) ==
    CASE chunk.type = "content" /\ ~role_sent ->
           <<Part("chat.completion.chunk", "assistant", Some(chunk.data), <<>>, "null")>>
      [] chunk.type = "error" -> <<ErrorPart(chunk.data)>>
      [] OTHER -> <<>>

\* Lines 713-739, the body of the loop: what one event of the backend adds to the
\* body, a content chunk (with the role on the first one), an error payload, or nothing.
Forwarded(chunk, role_sent) ==
    CASE chunk.type = "content" ->
           <<Part("chat.completion.chunk", IF role_sent THEN "" ELSE "assistant",
                  Some(chunk.data), <<>>, "null")>>
      [] chunk.type = "error" -> <<ErrorPart(chunk.data)>>
      [] OTHER -> <<>>

\* Lines 705-739: the next event of the backend is consumed and forwarded.
StreamForward ==
    /\ ppc = "streaming"
    /\ ~caller_gone
    /\ pending # <<>>
    /\ out' = out \o Forwarded(Head(pending), sent_role)
    /\ sent_role' = (sent_role \/ Head(pending).type = "content")
    /\ pending' = Tail(pending)
    /\ UNCHANGED <<ppc, request_body, fallback, backend_calls, reply, full_text, out_kind, source, caller_gone, environ, system_messages>>
    /\ ProxyOnly

\* Lines 740-748: the backend's events are exhausted.
StreamFinish ==
    /\ ppc = "streaming"
    /\ ~caller_gone
    /\ pending = <<>>
    /\ ~reply.raises
    /\ out' = out \o <<StopPart, DonePart>>
    /\ ppc' = "responded"
    /\ UNCHANGED <<request_body, fallback, backend_calls, reply, pending, sent_role, full_text, out_kind, source, caller_gone, environ, system_messages>>
    /\ ProxyOnly

\* send_message raises while _stream_glm_response reads it: the body ends there.
StreamRaises ==
    /\ ppc = "streaming"
    /\ ~caller_gone
    /\ pending = <<>>
    /\ reply.raises
    /\ ppc' = "raised"
    /\ UNCHANGED <<request_body, fallback, backend_calls, reply, pending, sent_role, full_text, out, out_kind, source, caller_gone, environ, system_messages>>
    /\ ProxyOnly

\* StreamingResponse(_stream_glm_response(...)), lines 893-896: the server iterates
\* the generator to send its chunks, and drops it once the caller has gone; the
\* generator is then closed at the `yield` where it stands.
StreamAbandoned ==
    /\ ppc = "streaming"
    /\ caller_gone
    /\ ppc' = "abandoned"
    /\ UNCHANGED <<request_body, fallback, backend_calls, reply, pending, sent_role, full_text, out, out_kind,
                   source, caller_gone, environ, system_messages>>
    /\ ProxyOnly

ProxyNext ==
    \/ ReceiveRequest
    \/ ShortCircuit
    \/ CollectBackend
    \/ CollectStep
    \/ CollectFinish
    \/ CollectRaises
    \/ CallerDisconnects
    \/ StreamAbandoned
    \/ DecideToolCall
    \/ RespondPlain
    \/ OpenStream
    \/ StreamForward
    \/ StreamFinish
    \/ StreamRaises

-----------------------------------------------------------------------------
(* Specifications *)

\* GLMClient.send_message from the completions POST on: the stream loop.
InitDemux == DemuxInit /\ SignIdle /\ SessIdle /\ ProxyIdle /\ MarkerIdle /\ FragmentIdle /\ HistoryIdle
SpecDemux == InitDemux /\ [][DemuxNext]_vars

\* GLMClient.send_message up to the completions POST.
InitSign == SignInit /\ DemuxIdle /\ SessIdle /\ ProxyIdle /\ MarkerIdle /\ FragmentIdle /\ HistoryIdle
SpecSign == InitSign /\ [][SignNext]_vars

\* The proxy process: its requests and the default chat session.
InitSession == SessInit /\ DemuxIdle /\ SignIdle /\ ProxyIdle /\ MarkerIdle /\ FragmentIdle /\ HistoryIdle
SpecSession == InitSession /\ [][SessNext]_vars

\* chat_completions, one request from its arrival to the response.
InitProxy == ProxyInit /\ DemuxIdle /\ SignIdle /\ SessIdle /\ MarkerIdle /\ FragmentIdle /\ HistoryIdle
SpecProxy == InitProxy /\ [][ProxyNext]_vars

\* The stream loop on a stream and on the same stream with the markers replaced.
InitMarkers == MarkerInit /\ DemuxIdle /\ SignIdle /\ SessIdle /\ ProxyIdle /\ FragmentIdle /\ HistoryIdle
SpecMarkers == InitMarkers /\ [][MarkerNext]_vars

\* The stream loop on one envelope, from either state.
InitFragment == FragmentInit /\ DemuxIdle /\ SignIdle /\ SessIdle /\ ProxyIdle /\ MarkerIdle /\ HistoryIdle
SpecFragment == InitFragment /\ [][FragmentNext]_vars

\* One call of _history_to_messages on a history of the backend.
InitHistory == HistoryInit /\ DemuxIdle /\ SignIdle /\ SessIdle /\ ProxyIdle /\ MarkerIdle /\ FragmentIdle
SpecHistory == InitHistory /\ [][HistoryNext]_vars

-----------------------------------------------------------------------------
(* Properties of the default chat session *)

\* C3: over all the requests of one process, in any interleaving, create_chat
\* creates the default session at most once, and all requests work with that
\* one cached identifier.
SessionCreatedAtMostOnce ==
    /\ ncreated <= 1
    /\ \A r1, r2 \in Requests :
          (hpc[r1] = "handled" /\ hpc[r2] = "handled") => chat_of[r1] = chat_of[r2]

-----------------------------------------------------------------------------
(* Properties of GLMClient.send_message up to the POST *)

\* C9: when the computation of the signature fails, send_message has raised and
\* has issued no network call (no history fetch, no completions POST); and every
\* completions POST carries a signature.
SignatureFailureAborts ==
    /\ sigFailed => (spc = "raised" /\ netlog = <<>>)
    /\ \A i \in 1..Len(netlog) :
          netlog[i].op = "post" => TruthySig(netlog[i].x_signature)

\* C9, witness: the signature failed for a call that asked for the history.
SignatureFailedBeforeHistory ==
    /\ sigFailed
    /\ args.include_history
    /\ args.use_browser_signature

\* Timestamps around the one that was signed: in its window, at the boundaries of
\* the neighbouring windows, and further away.
Timestamps == {0, 1, 299999, 300000, 300001, 599999, 600000}

\* The signature was computed by generate_signature (api_client.py:260-272).
SignatureGenerated ==
    /\ spc \in {"signed", "ready", "posted"}
    /\ ~TruthySig(args.manual_signature)

\* C22: the subkey depends on the timestamp only through floor(timestamp / 300000):
\* a timestamp of the same window gives the subkey of the signature, one of another
\* window gives another window input and subkey; and any other timestamp, all
\* other inputs equal, gives another signing input and another signature.
SubkeyPerWindow ==
    SignatureGenerated =>
        /\ signed.signature[2] = subkey_hex(signed.timestamp)
        /\ \A t \in Timestamps :
              /\ (t \div 300000 = signed.timestamp \div 300000)
                    => subkey_hex(t) = signed.signature[2]
              /\ (t \div 300000 # signed.timestamp \div 300000)
                    => /\ time_window(t) # time_window(signed.timestamp)
                       /\ subkey_hex(t) # signed.signature[2]
              /\ t # signed.timestamp
                    => /\ data_to_sign(build_sorted_payload(t, signed.request_id, args.user_id),
                                       Prompt(args.messages), t) # signed.signature[3]
                       /\ generate_signature(build_sorted_payload(t, signed.request_id, args.user_id),
                                             Prompt(args.messages), t) # signed.signature

\* C22, witness: a request signed at the last millisecond of a window.
SignedAtWindowEnd ==
    /\ SignatureGenerated
    /\ signed.timestamp = 299999
    /\ signed.signature # <<>>

\* The content of the last message of a list with role user ("" when there is none).
RECURSIVE LastUserContent(_)
LastUserContent(messages) ==
    IF messages = <<>> THEN ""
    ELSE IF Last(messages).role = "user" THEN Last(messages).content
    ELSE LastUserContent(SubSeq(messages, 1, Len(messages) - 1))

\* C23: in every completions POST, the body field signature_prompt is the content
\* of the last message with role user of the list of messages send_message is
\* given to send, whatever the role of the last message of that list.
SignaturePromptIsLastUserMessage ==
    \A i \in 1..Len(netlog) :
        (/\ netlog[i].op = "post"
         /\ \E n \in 1..Len(args.messages) : args.messages[n].role = "user")
            => netlog[i].signature_prompt = LastUserContent(args.messages)

-----------------------------------------------------------------------------
\* C29: in both modes that generate the signature, the request agrees with what
\* was signed: the X-Signature header is the signature of the timestamp (sent as
\* `timestamp` and as `signature_timestamp`), the `requestId`, the `user_id` and
\* the `signature_prompt` that the request carries.
OutboundMatchesSigned ==
    \A i \in 1..Len(netlog) :
        (netlog[i].op = "post" /\ ~TruthySig(args.manual_signature)) =>
            /\ netlog[i].params.signature_timestamp = netlog[i].params.timestamp
            /\ netlog[i].x_signature =
                  generate_signature(build_sorted_payload(netlog[i].params.timestamp.str,
                                                          netlog[i].params.requestId,
                                                          netlog[i].params.user_id),
                                     netlog[i].signature_prompt,
                                     netlog[i].params.timestamp.str)

\* C29, witness: a request of a known user, signed by the helper, has been posted.
HelperSignedRequestPosted ==
    /\ spc = "posted"
    /\ ~TruthySig(args.manual_signature)
    /\ args.use_browser_signature
    /\ args.user_id = "u1"
    /\ Prompt(args.messages) = "hello"
    /\ netlog[Len(netlog)].op = "post"
    /\ netlog[Len(netlog)].params.user_id = "u1"

\* C30: the cached identifier is written by _ensure_proxy_chat only: once it
\* holds an identifier no step of any request changes or clears it, a request
\* whose create_chat fails leaves it as it was, unset, and a request that finds
\* it unset attempts the creation again.
CacheWrittenOnlyOnCreation ==
    [][ /\ proxy_chat_id # NoChat => proxy_chat_id' = proxy_chat_id
        /\ proxy_chat_id' # proxy_chat_id =>
              \E r \in Requests : hpc[r] = "awaiting" /\ hpc'[r] = "handled"
        /\ \A r \in Requests :
              /\ (hpc[r] = "awaiting" /\ hpc'[r] = "failed") =>
                    (proxy_chat_id = NoChat /\ proxy_chat_id' = proxy_chat_id)
              /\ (hpc[r] = "awaiting" /\ hpc'[r] = "handled" /\ proxy_chat_id = NoChat) =>
                    (ncreated' = ncreated + 1 /\ proxy_chat_id' = chat_of'[r])
      ]_vars

(* Properties of the event sequence of GLMClient.send_message *)

TypeAt(i) == events[i].type
EventIdx == 1..Len(events)

\* The events a step yields.
NewEvents == SubSeq(events', Len(events) + 1, Len(events'))

\* C1: `done` is never emitted while the demultiplexer is in state Thinking: a
\* step that yields `done` (the [DONE] sentinel, an envelope with phase=done) from
\* state Thinking yields a compensating `thinking_end` immediately before it, and
\* a stream that ends while the state is Thinking is closed by a `thinking_end`.
DoneNeverInThinking ==
    [][(in_thinking /\ dpc = "reading")
       => LET new == NewEvents
              n == Len(new)
          IN /\ \A i \in 1..n :
                   new[i].type = "done" => (i > 1 /\ new[i - 1].type = "thinking_end")
             /\ (dpc' = "closed" /\ ~faulted')
                   => \E i \in 1..n : new[i].type = "thinking_end"]_vars

\* C2: every thinking region is closed by exactly one `thinking_end` before any
\* later `content`: no `content` follows a `thinking` without a `thinking_end`
\* in between, and no region is closed twice (two `thinking_end` after a
\* `thinking` with no `thinking` between them).
ThinkingClosedExactlyOnce ==
    /\ \A i, j \in EventIdx :
          (i < j /\ TypeAt(i) = "thinking" /\ TypeAt(j) = "content")
             => \E k \in (i + 1)..(j - 1) : TypeAt(k) = "thinking_end"
    /\ \A i, j \in EventIdx :
          (i < j /\ TypeAt(i) = "thinking_end" /\ TypeAt(j) = "thinking_end"
                 /\ \E h \in 1..(i - 1) : TypeAt(h) = "thinking")
             => \E k \in (i + 1)..(j - 1) : TypeAt(k) = "thinking"

\* C8: after a requests.RequestException, while opening or reading the stream,
\* the generator has ended, it has yielded exactly one `error` event, and that
\* event is the last one.
FaultYieldsOneTerminalError ==
    faulted =>
        /\ dpc = "closed"
        /\ events # <<>>
        /\ Last(events).type = "error"
        /\ Cardinality({i \in EventIdx : TypeAt(i) = "error"}) = 1

\* C8, witness: a fault while reading, after events have been yielded.
FaultWhileReading ==
    /\ faulted
    /\ Len(events) >= 2
    /\ events[1].type = "thinking"

\* C10: `done` is terminal: no event follows a `done`, so there is at most one.
DoneIsTerminal ==
    \A i \in EventIdx : TypeAt(i) = "done" => i = Len(events)

\* C11: a backend data line that is not a well-formed envelope (invalid JSON, a
\* JSON object of neither format, a JSON number, null or array) is skipped: the
\* generator raises no exception on it and goes on reading the later lines.
NonEnvelopeLineSkipped == dpc # "raised"

\* C20: the <details>/</details> markers are treated as the <think>/</think>
\* markers: for any sequence of fragments, in either envelope format, the stream
\* with one pair of markers replaced by the other yields the same thinking,
\* thinking_end and content events and ends in the same state, also for a closing
\* marker met in state Answer and for several markers in one fragment.
MarkerPairsInterchangeable ==
    /\ replaced_thinking = given_thinking
    /\ replaced_events = given_events

\* The fragments <think>A</think>B with A and B text without markers, not empty.
IsTextRun(c) == c # <<>> /\ \A n \in 1..Len(c) : c[n] \in TextTok
ThinkThenAnswer(c, A, B) ==
    /\ IsTextRun(A)
    /\ IsTextRun(B)
    /\ \E open \in ThinkOpenTok : c = <<open>> \o A \o <<ThinkCloseTok>> \o B

OpenTokOf(format) == IF format = "choices" THEN ThinkOpenTok ELSE DetailsOpenTok
CloseTokOf(format) == IF format = "choices" THEN ThinkCloseTok ELSE DetailsCloseTok

\* The text of a fragment, marker by marker: each token of text with the state
\* active at its position (TRUE for Thinking).
RECURSIVE TaggedText(_, _, _)
TaggedText(c, it, format) ==
    IF c = <<>> THEN <<>>
    ELSE IF Head(c) \in OpenTokOf(format) THEN TaggedText(Tail(c), TRUE, format)
    ELSE IF Head(c) = CloseTokOf(format) THEN TaggedText(Tail(c), FALSE, format)
    ELSE <<[thinking |-> it, text |-> Head(c)]>> \o TaggedText(Tail(c), it, format)

\* The text of the thinking and content events, token by token, with its tag.
RECURSIVE TaggedData(_)
TaggedData(evs) ==
    IF evs = <<>> THEN <<>>
    ELSE (IF Head(evs).type \in {"thinking", "content"}
          THEN [n \in 1..Len(Head(evs).data) |->
                   [thinking |-> Head(evs).type = "thinking", text |-> Head(evs).data[n]]]
          ELSE <<>>)
         \o TaggedData(Tail(evs))

\* C25: no text is lost or reclassified: the data of the thinking and content
\* events of a fragment, in order, is the text of the fragment with the markers
\* removed, each piece tagged with the state active at its position, also with
\* several closing markers and with text before an opening marker.
NoTextLostOrReclassified ==
    (/\ fpc = "applied"
     /\ \A n \in 1..Len(fragment) : fragment[n] \in TextTok \cup OpenTokOf(envelope) \cup {CloseTokOf(envelope)})
        => TaggedData(yielded) = TaggedText(fragment, before, envelope)

-----------------------------------------------------------------------------
(* Properties of the response of chat_completions *)

\* The tool calls the response carries, in order.
EmittedCalls == Concat([n \in 1..Len(out) |-> out[n].tool_calls])

\* The stages that work from the user's words, and those that work from the
\* text of the model.
HeuristicStages == {"read heuristic", "listing heuristic"}
ParsingStages == {"strict parsing", "partial recovery"}

HasContent(call) ==
    /\ IsJStr(Get(call.arguments, "content"))
    /\ Strip(Get(call.arguments, "content").s) # ""

\* C5: no response carries, at any position of its tool calls, a call of write
\* or edit whose content is missing, empty or blank.
NoBlankWriteEmitted ==
    \A n \in 1..Len(EmittedCalls) :
        EmittedCalls[n].name \in {"write", "edit"} => HasContent(EmittedCalls[n])

\* The names of the tools the request declares, only the forced one when
\* tool_choice names one of them.
DeclaredNames == {request_body.tools[n].name : n \in 1..Len(request_body.tools)}
AdmittedNames ==
    IF request_body.tool_choice.kind = "function" /\ request_body.tool_choice.name \in DeclaredNames
    THEN {request_body.tool_choice.name}
    ELSE DeclaredNames

\* C6: every tool call of a response, whatever stage it comes from, names a tool
\* the request declares, the forced one when tool_choice names a declared tool.
EmittedNamesDeclared ==
    \A n \in 1..Len(EmittedCalls) : EmittedCalls[n].name \in AdmittedNames

\* C6, witness: strict parsing has answered a request that forces a declared
\* tool, from a text that also calls another declared tool.
ForcedToolCallEmitted ==
    /\ ppc = "responded"
    /\ source = "strict parsing"
    /\ request_body.tool_choice = Forced("read")
    /\ Len(request_body.tools) = 2
    /\ In("\"write\"", full_text)
    /\ EmittedCalls # <<>>

\* send_message has yielded an `error` event.
BackendFailed == \E i \in 1..Len(reply.events) : reply.events[i].type = "error"

\* C7: when the backend call fails, a streaming response carries an `error`
\* payload, and a response that is not streamed is not a completion with
\* finish_reason stop and empty content, with tools and without.
BackendFailureSurfaced ==
    (ppc = "responded" /\ BackendFailed) =>
        IF request_body.stream
        THEN \E n \in 1..Len(out) : out[n].object = "error"
        ELSE ~\E n \in 1..Len(out) : out[n].finish_reason = "stop" /\ out[n].content = Some("")

\* C12: for a request with tools, when strict parsing, partial recovery and the
\* intent heuristics all yield no tool call, the handler raises no exception and
\* answers (streamed or not) with ordinary assistant content that carries the raw
\* text of the model together with the retry hint.
NoToolCallYieldsTextWithHint ==
    (tools_of(request_body) # <<>> /\ backend_calls > 0 /\ ~reply.raises) =>
        /\ ppc # "raised"
        /\ (ppc = "responded" /\ source = "content") =>
              /\ out[1].role = "assistant"
              /\ out[1].tool_calls = <<>>
              /\ out[1].content # NoStr
              /\ In(full_text, out[1].content[1])
              /\ In(RetryHint, out[1].content[1])

\* The chunks of a body that carry a content delta, and the positions of `[DONE]`.
IsContentDelta(part) ==
    /\ part.object = "chat.completion.chunk"
    /\ part.content # NoStr
    /\ part.tool_calls = <<>>
    /\ part.finish_reason = "null"
DonePositions == {n \in 1..Len(out) : out[n] = DonePart}

\* C13: every SSE body that has ended, also when the backend reported an error or
\* send_message raised while the body was streamed, ends with `data: [DONE]` as
\* its last chunk and holds no other `[DONE]`; a body of content is its content
\* deltas (and the error payloads among them), then exactly one empty-delta chunk
\* with finish_reason stop, then `[DONE]`.
SseBodyEndsWithDone ==
    (out_kind = "sse" /\ ppc \in {"responded", "raised"}) =>
        /\ DonePositions = {Len(out)}
        /\ Len(out) >= 2
        /\ (\A n \in 1..Len(out) : out[n].tool_calls = <<>>) =>
              /\ out[Len(out) - 1] = StopPart
              /\ \A n \in 1..(Len(out) - 2) : IsContentDelta(out[n]) \/ out[n].object = "error"

\* The events of the backend that _stream_glm_response has consumed so far.
Consumed == SubSeq(reply.events, 1, Len(reply.events) - Len(pending))
\* The texts of the content events of a sequence of events, in order.
RECURSIVE ContentTexts(_)
ContentTexts(evs) ==
    IF evs = <<>> THEN <<>>
    ELSE (IF Head(evs).type = "content" THEN <<Head(evs).data>> ELSE <<>>)
         \o ContentTexts(Tail(evs))
\* The texts of the content chunks of the body, in order.
RECURSIVE DeltaTexts(_)
DeltaTexts(parts) ==
    IF parts = <<>> THEN <<>>
    ELSE (IF IsContentDelta(Head(parts)) THEN Head(parts).content ELSE <<>>)
         \o DeltaTexts(Tail(parts))

\* C14: in a streaming request without tools, at every moment the content chunks of
\* the body are the content events consumed from the backend, one chunk per event
\* with the same text in the same order: each chunk is emitted before the next
\* event is consumed, nothing is buffered, merged or reordered.
PassThroughChunkPerEvent ==
    source = "pass-through" => DeltaTexts(out) = ContentTexts(Consumed)

\* C14, witness: both fragments of an answer have been forwarded as two chunks
\* while the backend's stream is still open.
TwoFragmentsForwarded ==
    /\ ppc = "streaming"
    /\ pending # <<>>
    /\ Len(out) = 2
    /\ DeltaTexts(out) = <<"Hello ", "there.">>
    /\ out[1].role = "assistant" /\ out[2].role = ""

\* C15: once the caller has disconnected while the backend stream is being read,
\* by the pass-through generator or by the buffered read, the read is aborted: no
\* further event of the backend is consumed, and nothing more is put in the response.
ReadAbortedOnDisconnect ==
    [][(caller_gone /\ ppc \in {"collecting", "streaming"})
          => (pending' = pending /\ out' = out)]_vars

\* C16: _extract_tool_call resolves a tool name that is an alias of the synonym
\* table in any letter case: with the allowed tools write and read, the text
\* {"tool":"writeFile","arguments":{"filepath":"a.txt","content":"hi"}} is answered
\* by strict parsing with one call of write whose path is "a.txt".
AliasedNameResolved ==
    (/\ ppc = "responded"
     /\ full_text = AliasedCall
     /\ allowed_tools_of(request_body) = <<"write", "read">>) =>
        /\ source = "strict parsing"
        /\ Len(EmittedCalls) = 1
        /\ EmittedCalls[1].name = "write"
        /\ Get(EmittedCalls[1].arguments, "path") = JStr("a.txt")

\* The keys of the arguments of a call.
KeysOf(call) == {call.arguments[n].k : n \in 1..Len(call.arguments)}

\* C17: when the parameters the target tool declares hold their own spelling of
\* the path key (filePath), _normalize_args stores the value of a path-like key of
\* the model (here `file`) under that spelling, not under the model's key and not
\* under `path`.
PathStoredUnderDeclaredKey ==
    (/\ ppc = "responded"
     /\ full_text = FileKeyCall
     /\ source = "strict parsing"
     /\ ParamsOf(request_body.tools, EmittedCalls[1].name) = <<"filePath", "content">>) =>
        /\ Get(EmittedCalls[1].arguments, "filePath") = JStr("b.txt")
        /\ KeysOf(EmittedCalls[1]) = {"filePath", "content"}

\* The path-like argument of a call: the first of path, filePath and file_path that
\* holds a value.
PathLikeOf(call) ==
    JOr(JOr(Get(call.arguments, "path"), Get(call.arguments, "filePath")),
        Get(call.arguments, "file_path"))

\* C18: no tool-call response, from parsing, partial recovery or a heuristic,
\* carries a call of read whose path is empty, ".", "./" or ends with a path
\* separator, nor a call of write or edit whose path-like argument is missing or empty.
NoDegeneratePathEmitted ==
    \A n \in 1..Len(EmittedCalls) :
        /\ EmittedCalls[n].name = "read" =>
              /\ IsJStr(PathLikeOf(EmittedCalls[n]))
              /\ Strip(PathLikeOf(EmittedCalls[n]).s) # ""
              /\ ~IsDirectoryMarker(Strip(PathLikeOf(EmittedCalls[n]).s))
        /\ EmittedCalls[n].name \in {"write", "edit"} =>
              /\ IsJStr(PathLikeOf(EmittedCalls[n]))
              /\ PathLikeOf(EmittedCalls[n]).s # ""

\* A tool that writes or edits: write, edit, or an allowed tool whose name holds one
\* of them (write_file).
IsWriteTool(name) == In("write", name) \/ In("edit", name)

\* C19: _extract_partial_tool_call never fabricates a content: a call of a write or
\* edit tool that partial recovery returns (also of a tool matched by substring,
\* such as write_file) carries a path and a content, the content is text of the
\* model's output, and without a parsable content there is no call.
PartialCallHasLocatedContent ==
    (ppc = "responded" /\ source = "partial recovery") =>
        \A n \in 1..Len(EmittedCalls) :
            IsWriteTool(EmittedCalls[n].name) =>
                /\ IsJStr(Get(EmittedCalls[n].arguments, "content"))
                /\ In(Get(EmittedCalls[n].arguments, "content").s, Replace(full_text, "\\\"", "\""))
                /\ JTruthy(PathLikeOf(EmittedCalls[n]))

\* C24: tool-call emission is gated by legacy mutation mode: whenever
\* GLM_PY_LEGACY_ENABLE_MUTATIONS is unset or not truthy, legacy_tools_enabled() is
\* false whatever GLM_PY_LEGACY_ENABLE_TOOLS holds, and the proxy emits no
\* tool-call response.
ToolEmissionGatedByMutationMode ==
    ~legacy_mutations_enabled(environ) =>
        /\ ~legacy_tools_enabled(environ)
        /\ EmittedCalls = <<>>

-----------------------------------------------------------------------------
(* Properties of GLMClient._history_to_messages *)

\* The identifiers of a sequence are pairwise different.
EachOnce(ids) == \A m, n \in 1..Len(ids) : ids[m] = ids[n] => m = n

\* C26: _history_to_messages terminates for every history map, also with a cycle
\* of parentId links or a link to a missing id: the walk from currentId appends
\* each message at most once, so it ends after at most as many turns as the map
\* has messages, and it returns the chain root-first, each message at most once.
HistoryWalkTerminates ==
    /\ lpc = "walking" =>
          /\ EachOnce(chain_ids)
          /\ Len(chain_ids) <= Cardinality(DOMAIN messages_map)
    /\ (lpc = "returned" /\ linear.current_id # None) =>
          /\ EachOnce(chain_ids)
          /\ \A n \in 1..(Len(chain_ids) - 1) :
                messages_map[chain_ids[n]].parentId = chain_ids[n + 1]
          /\ chain_ids[1] = currentId
          /\ linear.messages = KeptMessages(Reversed(chain_ids), messages_map)
          /\ EachOnce([n \in 1..Len(linear.messages) |-> linear.messages[n].id])


\* The text a response carries as assistant content.
RECURSIVE ResponseText(_)
ResponseText(parts) ==
    IF parts = <<>> THEN ""
    ELSE (IF Head(parts).content # NoStr /\ Head(parts).object # "error"
          THEN Head(parts).content[1] ELSE "")
         \o ResponseText(Tail(parts))

\* The request with the other value of `stream`.
OtherBranch == [request_body EXCEPT !.stream = ~request_body.stream]

\* C27: for the same request and the same buffered text of the backend, the
\* streaming and the non-streaming branch decide alike: the other branch emits
\* a tool-call response with the same calls, or a content response with the
\* same text, as the branch that answered.
BranchesDecideAlike ==
    (ppc = "responded" /\ tools_of(request_body) # <<>> /\ backend_calls > 0) =>
        \E dir \in Dirs : \E outcome \in {decide_tool_call(OtherBranch, full_text, dir)} :
            IF EmittedCalls # <<>>
            THEN outcome.st = "calls" /\ outcome.calls = EmittedCalls
            ELSE /\ outcome.st \notin {"calls", "raised"}
                 /\ ResponseText(content_response(OtherBranch.stream, full_text)) = ResponseText(out)


\* The request turns tools off: tool_choice "none", or a last message that is a
\* tool result.
ToolsTurnedOff ==
    request_body.tool_choice.kind = "none" \/ post_tool_response(request_body)

\* C28: when tool_choice is "none" or the last message is a tool result, the
\* handler never answers with tool calls: no tool prompt is sent to the backend,
\* no heuristic and no parsing stage produces the response, and the response it
\* completes is a content response with finish_reason stop.
ToolsOffAnswersContent ==
    (ppc # "idle" /\ ToolsTurnedOff) =>
        /\ EmittedCalls = <<>>
        /\ fallback.st # "calls"
        /\ source \notin HeuristicStages \cup ParsingStages
        /\ ~InList(ToolPromptMsg, system_messages)
        /\ ~InList(JsonOnlyMsg, system_messages)
        /\ ppc = "responded" =>
              /\ source \in {"content", "pass-through"}
              /\ \A n \in 1..Len(out) : out[n].finish_reason \in {"null", "stop"}
              /\ \E n \in 1..Len(out) : out[n].finish_reason = "stop"

\* C28, witness: a request that names a file to read and declares tools, with
\* tool_choice "none", has been answered with the text of the backend.
ToolChoiceNoneAnswered ==
    /\ ppc = "responded"
    /\ request_body.tool_choice.kind = "none"
    /\ request_body.tools # <<>>
    /\ last_user_raw(request_body) = "read config.yaml"
    /\ backend_calls = 1
    /\ system_messages = <<>>
    /\ ResponseText(out) = "Hello there."

=============================================================================
